---- MODULE Spec2Model ----
(***************************************************************************)
(* A model of the memory tiers of Agentic-Memory and of the orchestrator   *)
(* that composes them:                                                     *)
(*   - WorkingMemory      (src/memory/working.py)                          *)
(*   - ProceduralMemory   (src/memory/procedural.py)                       *)
(*   - EpisodicMemory     (src/memory/episodic.py)                         *)
(*   - MemoryAgent        (src/agent/core.py)                              *)
(* Texts are sequences of one-character strings, so that parsing and       *)
(* formatting are computed the way the code computes them.                 *)
(***************************************************************************)
EXTENDS Integers, Sequences, FiniteSets, TLC

VARIABLES
    \* ---- WorkingMemory (src/memory/working.py)
    messages,       \* self._messages: sequence of [type, content]
    metadata,       \* self._metadata: the four maintained counters
    max_size,       \* self.max_size
    appended,       \* history: the messages passed to store since construction or clear
    wm_ops,         \* number of WorkingMemory calls made (bounded by MaxWMOps)
    wm_last,        \* history: the last direct WorkingMemory call and what it returned
    \* ---- ProceduralMemory (src/memory/procedural.py)
    rules,          \* self.rules: sequence of [index, instruction, rationale]
    file_exists,    \* self.file_path.exists()
    file_text,      \* the content of the backing file
    pm_ready,       \* initialize has returned normally at least once
    pm_last,        \* history: the last ProceduralMemory call and its outcome
    pm_ops,         \* number of ProceduralMemory calls made (bounded by MaxPMOps)
    updates,        \* per updater: its update call suspended at `await self.llm.ainvoke`
    \* ---- MemoryAgent (src/agent/core.py)
    initialized,    \* self.initialized
    state,          \* self.state: episodic_history, what_worked, what_to_avoid
    pc,             \* per caller: the await of process_message it is suspended at
    frame,          \* per caller: the locals of its process_message call
    trace,          \* history, per caller: the calls its current turn has made
    outcome,        \* history, per caller: how its last process_message ended
    turns,          \* history: number of process_message calls started
    raised_turns,   \* history: number of process_message calls that raised
    provider_inits, \* history: number of provider.initialize calls made
    calls,          \* history: number of initialize and end_conversation calls started
    \* ---- EpisodicMemory (src/memory/episodic.py) and its collection
    collection,     \* the objects of the episodic collection; an object's uuid is its position
    now,            \* datetime.now()
    em_last,        \* history: the last EpisodicMemory call and its outcome
    em_ops,         \* number of EpisodicMemory calls made (bounded by MaxEMOps)
    \* ---- ConversationManager (src/agent/conversation.py)
    session,        \* self.conversation_id and self.stats
    mgr,            \* per caller: the ConversationManager method it is inside, and its outcome
    \* ---- AgentState called directly (src/core/models/state.py)
    added,          \* history: the last AgentState call, and the summaries passed to
                    \* add_episodic since the last reset
    st_ops,         \* number of AgentState calls made (bounded by MaxStateOps)
    \* ---- WeaviateProvider (src/providers/weaviate.py)
    closes,         \* history: number of provider.close calls made
    \* ---- SemanticMemory.get_by_source (src/memory/semantic.py)
    fetched,        \* results.objects: what the store hands back for the source
    chunks,         \* history: whether get_by_source was called, and what it returned
    \* ---- EpisodicMemory.retrieve called with a limit (src/memory/episodic.py)
    result_objects  \* history: result.objects of the last such call, as uuids

wmVars == <<messages, metadata, max_size, appended, wm_ops, wm_last>>
pmVars == <<rules, file_exists, file_text, pm_ready, pm_last, pm_ops, updates>>
agVars ==
    <<initialized, state, pc, frame, trace, outcome, turns, raised_turns, provider_inits,
      calls>>
emVars == <<collection, now, em_last, em_ops>>
svVars == <<session, mgr, added, st_ops, closes, fetched, chunks, result_objects>>
vars == <<wmVars, pmVars, agVars, emVars, svVars>>

(***************************************************************************)
(* Bounds of the model.                                                    *)
(***************************************************************************)
MaxSize == 3
MaxWMOps == 5
MaxRetrieveOps == 4
MaxSessionCalls == 2
MaxSessionTurns == 2
MaxShutdownCalls == 3
MaxStateOps == 12
MaxFetched == 3
MaxChunkIndex == 2
MaxPMOps == 4
MaxTurns == 3
MaxEMOps == 3
MaxEntries == 1
MaxClock == 1
MaxCalls == 2
MaxLifeTurns == 1
MaxSharedTurns == 2

\* process_message calls and initialize calls made on an agent that two
\* callers start.
MaxStartupTurns == 1
MaxStartupCalls == 1

\* retrieve calls made with a limit, and the largest limit passed.
MaxRankedOps == 3
MaxLimit == 2

(***************************************************************************)
(* Texts.                                                                  *)
(***************************************************************************)
NL == "\n"

Digits == <<"0", "1", "2", "3", "4", "5", "6", "7", "8", "9">>

\* str.isspace for the characters of the model's alphabet.
IsSpace(c) == c \in {" ", NL, "\t"}

\* \d of the re module for the characters of the model's alphabet.
IsDigit(c) == \E i \in 1..Len(Digits) : Digits[i] = c

\* s[n:] for 0 <= n
Drop(s, n) == SubSeq(s, n + 1, Len(s))

\* s[:n] for 0 <= n
Take(s, n) == IF n >= Len(s) THEN s ELSE SubSeq(s, 1, n)

RECURSIVE LStrip(_)
LStrip(s) == IF s # <<>> /\ IsSpace(Head(s)) THEN LStrip(Tail(s)) ELSE s

RECURSIVE RStrip(_)
RStrip(s) == IF s # <<>> /\ IsSpace(s[Len(s)]) THEN RStrip(Take(s, Len(s) - 1)) ELSE s

\* str.strip()
Strip(s) == RStrip(LStrip(s))

\* s.find(p): the first position (1-based) at which p occurs in s, 0 if none.
RECURSIVE FindFrom(_, _, _)
FindFrom(s, p, i) ==
    IF i + Len(p) - 1 > Len(s) THEN 0
    ELSE IF SubSeq(s, i, i + Len(p) - 1) = p THEN i
    ELSE FindFrom(s, p, i + 1)

Find(s, p) == FindFrom(s, p, 1)

\* s.split(c) for a one-character separator: the sequence of fields.
RECURSIVE SplitChar(_, _)
SplitChar(s, c) ==
    LET i == Find(s, <<c>>)
    IN  IF i = 0 THEN <<s>>
        ELSE <<Take(s, i - 1)>> \o SplitChar(Drop(s, i), c)

\* sep.join(parts)
RECURSIVE Join(_, _)
Join(parts, sep) ==
    IF parts = <<>> THEN <<>>
    ELSE IF Len(parts) = 1 THEN parts[1]
    ELSE parts[1] \o sep \o Join(Tail(parts), sep)

\* str(n) for n >= 0
RECURSIVE IntToStr(_)
IntToStr(n) ==
    IF n < 10 THEN <<Digits[n + 1]>>
    ELSE IntToStr(n \div 10) \o <<Digits[(n % 10) + 1]>>

\* The number of leading digits of s.
RECURSIVE LeadingDigits(_)
LeadingDigits(s) ==
    IF s # <<>> /\ IsDigit(Head(s)) THEN 1 + LeadingDigits(Tail(s)) ELSE 0

\* re.sub(r'^\d+\.\s*', '', line)
RemoveNumbering(line) ==
    LET k == LeadingDigits(line)
    IN  IF k >= 1 /\ Len(line) > k /\ line[k + 1] = "."
        THEN LStrip(Drop(line, k + 1))
        ELSE line

Sep == <<" ", "-", " ">>

(***************************************************************************)
(* WorkingMemory.                                                          *)
(***************************************************************************)
\* BaseMessage.type of SystemMessage, HumanMessage and AIMessage.
MessageTypes == {"system", "human", "ai"}

Contents == {<<"a">>, <<"b">>}

Messages == [type : MessageTypes, content : Contents]

SystemMessage(c) == [type |-> "system", content |-> c]

HumanMessage(c) == [type |-> "human", content |-> c]

AIMessage(c) == [type |-> "ai", content |-> c]

\* WorkingMemory.__init__: the initial value of self._metadata.
ZeroMetadata ==
    [total_messages |-> 0, system_prompts |-> 0, user_messages |-> 0, ai_messages |-> 0]

\* A wrong truth test: a max_size of 0 counts as a capacity.
SizeGiven(n) == TRUE

\* Python's truth value of max_size in `if self.max_size and ...`: false for
\* 0 and for None, which take the same branch everywhere max_size is read
\* and are both written 0 here.
Truthy(n) == n # 0

\* seq[-n:] for 1 <= n
LastN(s, n) == IF n >= Len(s) THEN s ELSE SubSeq(s, Len(s) - n + 1, Len(s))

\* seq[:-n] for 1 <= n
AllButLastN(s, n) == IF n >= Len(s) THEN <<>> ELSE SubSeq(s, 1, Len(s) - n)

\* The number of messages of type t in s.
RECURSIVE CountType(_, _)
CountType(s, t) ==
    IF s = <<>> THEN 0
    ELSE (IF Head(s).type = t THEN 1 ELSE 0) + CountType(Tail(s), t)

\* WorkingMemory._update_metadata
UpdateMetadata(md, m) ==
    [total_messages |-> md.total_messages + 1,
     system_prompts |-> md.system_prompts + (IF m.type = "system" THEN 1 ELSE 0),
     user_messages  |-> md.user_messages + (IF m.type = "human" THEN 1 ELSE 0),
     ai_messages    |-> md.ai_messages + (IF m.type = "ai" THEN 1 ELSE 0)]

\* A wrong remove_last: the counters keep counting the removed messages.
KeepMetadata(md, removed) == md

\* The loop of remove_last over the removed messages.
RECURSIVE DecrementMetadata(_, _)
DecrementMetadata(md, removed) ==
    IF removed = <<>> THEN md
    ELSE LET m == Head(removed)
         IN  DecrementMetadata(
                [total_messages |-> md.total_messages - 1,
                 system_prompts |-> md.system_prompts - (IF m.type = "system" THEN 1 ELSE 0),
                 user_messages  |-> md.user_messages - (IF m.type = "human" THEN 1 ELSE 0),
                 ai_messages    |-> md.ai_messages - (IF m.type = "ai" THEN 1 ELSE 0)],
                Tail(removed))

\* A wrong trim: keeps the oldest messages instead of the newest.
TrimKeepOldest(msgs, size) ==
    IF Truthy(size) /\ Len(msgs) > size THEN SubSeq(msgs, 1, size) ELSE msgs

\* WorkingMemory.store, the trim: self._messages[-self.max_size:] when exceeded.
Trim(msgs, size) ==
    IF Truthy(size) /\ Len(msgs) > size THEN LastN(msgs, size) ELSE msgs

\* The effect of WorkingMemory.store on (self._messages, self._metadata).
StoredMessages(msgs, size, m) == Trim(Append(msgs, m), size)

\* WorkingMemory.store on self._messages and self._metadata.
DoStore(m) ==
    /\ messages' = StoredMessages(messages, max_size, m)
    /\ metadata' = UpdateMetadata(metadata, m)
    /\ appended' = Append(appended, m)

\* History record of a direct WorkingMemory call: the method, its keyword
\* arguments type and limit (<<>> when not passed), the n of remove_last and
\* the list returned by retrieve.
WMCalled(op, type, limit, n, result) ==
    [op |-> op, type |-> type, limit |-> limit, n |-> n, result |-> result]

\* str.lower() on the type names callers pass.
Lower(name) ==
    CASE name = "AI" -> "ai"
      [] name = "User" -> "user"
      [] OTHER -> name

\* [m for m in messages if isinstance(m, <class>)]
OfType(msgs, type) == SelectSeq(msgs, LAMBDA m : m.type = type)

\* WorkingMemory.retrieve, the filter: applied when type is truthy and its
\* lower-case form is 'system', 'user' or 'ai'; any other name filters nothing.
Filtered(msgs, type) ==
    IF type = <<>> \/ type = <<"">> THEN msgs
    ELSE CASE Lower(type[1]) = "system" -> OfType(msgs, "system")
           [] Lower(type[1]) = "user"   -> OfType(msgs, "human")
           [] Lower(type[1]) = "ai"     -> OfType(msgs, "ai")
           [] OTHER -> msgs

\* WorkingMemory.retrieve, the limit: messages[-limit:] when limit is truthy
\* (None and 0 are not); a negative limit k slices from index -k on.
Limited(msgs, limit) ==
    IF limit = <<>> \/ limit[1] = 0 THEN msgs
    ELSE IF limit[1] > 0 THEN LastN(msgs, limit[1])
    ELSE IF -limit[1] >= Len(msgs) THEN <<>>
    ELSE Drop(msgs, -limit[1])

\* A wrong retrieve: takes the last N of the log first and filters afterwards.
RetrieveLimitFirst(msgs, type, limit) == Filtered(Limited(msgs, limit), type)

\* WorkingMemory.retrieve: the list it returns.
RetrieveResult(msgs, type, limit) == Limited(Filtered(msgs, type), limit)

\* WorkingMemory.retrieve, called directly.
Retrieve(type, limit) ==
    /\ wm_ops < MaxWMOps
    /\ wm_last' = WMCalled("retrieve", type, limit, 0, RetrieveResult(messages, type, limit))
    /\ wm_ops' = wm_ops + 1
    /\ UNCHANGED <<messages, metadata, max_size, appended, pmVars, emVars, agVars, svVars>>

\* WorkingMemory.store, called directly.
Store(m) ==
    /\ wm_ops < MaxWMOps
    /\ DoStore(m)
    /\ wm_last' = WMCalled("store", <<>>, <<>>, 0, <<>>)
    /\ wm_ops' = wm_ops + 1
    /\ UNCHANGED <<max_size, pmVars, emVars, agVars, svVars>>

\* WorkingMemory.clear
Clear ==
    /\ wm_ops < MaxWMOps
    /\ messages' = <<>>
    /\ metadata' = ZeroMetadata
    /\ appended' = <<>>
    /\ wm_last' = WMCalled("clear", <<>>, <<>>, 0, <<>>)
    /\ wm_ops' = wm_ops + 1
    /\ UNCHANGED <<max_size, pmVars, emVars, agVars, svVars>>

\* WorkingMemory.remove_last
RemoveLast(n) ==
    /\ wm_ops < MaxWMOps
    /\ IF n > 0 /\ n <= Len(messages)
       THEN /\ messages' = AllButLastN(messages, n)
            /\ metadata' = DecrementMetadata(metadata, LastN(messages, n))
       ELSE UNCHANGED <<messages, metadata>>
    /\ wm_last' = WMCalled("remove_last", <<>>, <<>>, n, <<>>)
    /\ wm_ops' = wm_ops + 1
    /\ UNCHANGED <<max_size, appended, pmVars, emVars, agVars, svVars>>

(***************************************************************************)
(* ProceduralMemory.  A ProceduralRule is [index, instruction, rationale]; *)
(* category and created_at are never read by the operations modelled and   *)
(* are left out.                                                           *)
(***************************************************************************)
\* The cap of update: new_rules[:10].
MaxRulesKept == 10

Rule(i, ins, rat) == [index |-> i, instruction |-> ins, rationale |-> rat]

\* One iteration of the loop of _parse_rules on a stripped, non-empty line;
\* n is len(rules) before the append.
ParseLine(stripped, n) ==
    LET line == RemoveNumbering(stripped)
        i == Find(line, Sep)
    IN  IF i > 0
        THEN Rule(n + 1, Strip(Take(line, i - 1)), Strip(Drop(line, i + Len(Sep) - 1)))
        ELSE Rule(n + 1, Strip(line), <<>>)

RECURSIVE ParseLines(_, _)
ParseLines(lines, acc) ==
    IF lines = <<>> THEN acc
    ELSE LET line == Strip(Head(lines))
         IN  IF line = <<>>
             THEN ParseLines(Tail(lines), acc)
             ELSE ParseLines(Tail(lines), Append(acc, ParseLine(line, Len(acc))))

\* ProceduralMemory._parse_rules
ParseRules(text) == ParseLines(SplitChar(Strip(text), NL), <<>>)

\* The ten built-in rule texts of _get_default_rules, shortened: each is
\* "instruction - rationale" with the separator once and no leading ordinal,
\* as in the source.
DefaultRuleTexts ==
    [i \in 1..10 |-> <<"d", Digits[i]>> \o Sep \o <<"r", Digits[i]>>]

\* A wrong seed: the last built-in rule is left out.
GetNineDefaultRules ==
    [i \in 1..(Len(DefaultRuleTexts) - 1) |->
        Rule(i, Strip(Take(DefaultRuleTexts[i], 2)), Strip(Drop(DefaultRuleTexts[i], 5)))]

\* ProceduralMemory._get_default_rules
GetDefaultRules ==
    [i \in 1..Len(DefaultRuleTexts) |->
        LET t == DefaultRuleTexts[i]
            k == Find(t, Sep)
        IN  IF k > 0
            THEN Rule(i, Strip(Take(t, k - 1)), Strip(Drop(t, k + Len(Sep) - 1)))
            ELSE Rule(i, Strip(t), <<>>)]

\* One line of the file, as _save_rules formats it.
FormatRule(r) ==
    IntToStr(r.index) \o <<".", " ">> \o r.instruction
        \o (IF r.rationale # <<>> THEN Sep \o r.rationale ELSE <<>>)

\* ProceduralMemory._save_rules: the text handed to write_text.
SaveText(rs) == Join([i \in 1..Len(rs) |-> FormatRule(rs[i])], <<NL>>)

\* remove_rule: pop(index - 1), then rule.index = i for enumerate(self.rules, 1).
PopAndReindex(rs, index) ==
    LET rest == SubSeq(rs, 1, index - 1) \o SubSeq(rs, index + 1, Len(rs))
    IN  [i \in 1..Len(rest) |-> Rule(i, rest[i].instruction, rest[i].rationale)]

\* A wrong update: replaces the rule list even when nothing was parsed.
AlwaysReplace(cur, new_rules) == Take(new_rules, MaxRulesKept)

\* A wrong update: the parsed rules are added to the current ones.
UpdatedRulesMerging(cur, new_rules) == Take(cur \o new_rules, MaxRulesKept)

\* update: `if new_rules: self.rules = new_rules[:10]`, else the list is kept.
UpdatedRules(cur, new_rules) ==
    IF new_rules # <<>> THEN Take(new_rules, MaxRulesKept) ELSE cur

\* The record of a ProceduralMemory call: which method, whether it raised,
\* whether write_text ran to completion, for update the completion output
\* (<<>> if the completion call raised, and for the other methods), for
\* remove_rule the index passed (-1 otherwise).
Called(op, raised, wrote, text, index) ==
    [op |-> op, raised |-> raised, wrote |-> wrote, text |-> text, index |-> index]

\* The record of an update whose completion call raised.
CalledUpdateLLMFailed ==
    [op |-> "update_llm_failed", raised |-> TRUE, wrote |-> FALSE, text |-> <<>>, index |-> -1]

\* _save_rules called with self.rules = rs: write_text either overwrites the
\* file or fails (mkdir or open raises) leaving it as it was.
SaveRules(rs, write_ok) ==
    IF write_ok
    THEN file_exists' = TRUE /\ file_text' = SaveText(rs)
    ELSE UNCHANGED <<file_exists, file_text>>

\* ProceduralMemory.initialize on self.rules and the backing file.
DoPMInitialize(write_ok) ==
    /\ pm_ops' = pm_ops + 1
    /\ IF file_exists
       THEN /\ rules' = ParseRules(file_text)
            /\ UNCHANGED <<file_exists, file_text>>
            /\ pm_ready' = TRUE
            /\ pm_last' = Called("initialize", FALSE, FALSE, <<>>, -1)
       ELSE /\ rules' = GetDefaultRules
            /\ SaveRules(rules', write_ok)
            /\ pm_ready' = (pm_ready \/ write_ok)
            /\ pm_last' = Called("initialize", ~write_ok, write_ok, <<>>, -1)

\* ProceduralMemory.initialize, called directly.
PMInitialize(write_ok) ==
    /\ pm_ops < MaxPMOps
    /\ DoPMInitialize(write_ok)
    /\ UNCHANGED <<updates, wmVars, emVars, agVars, svVars>>

\* ProceduralMemory.store
PMStore(rule, write_ok) ==
    /\ pm_ready /\ pm_ops < MaxPMOps
    /\ pm_ops' = pm_ops + 1
    /\ rules' = Append(rules, rule)
    /\ SaveRules(rules', write_ok)
    /\ pm_last' = Called("store", ~write_ok, write_ok, <<>>, -1)
    /\ UNCHANGED <<pm_ready, updates, wmVars, emVars, agVars, svVars>>

\* ProceduralMemory.update when self.llm.ainvoke raises.
PMUpdateLLMFails ==
    /\ pm_ready /\ pm_ops < MaxPMOps
    /\ pm_ops' = pm_ops + 1
    /\ pm_last' = CalledUpdateLLMFailed
    /\ UNCHANGED <<rules, file_exists, file_text, pm_ready, updates, wmVars, emVars, agVars, svVars>>

\* ProceduralMemory.update when self.llm.ainvoke returns `text`.
PMUpdate(text, write_ok) ==
    /\ pm_ready /\ pm_ops < MaxPMOps
    /\ pm_ops' = pm_ops + 1
    /\ LET new_rules == ParseRules(Strip(text))
       IN  /\ rules' = UpdatedRules(rules, new_rules)
           /\ IF new_rules # <<>>
              THEN /\ SaveRules(rules', write_ok)
                   /\ pm_last' = Called("update", ~write_ok, write_ok, text, -1)
              ELSE /\ UNCHANGED <<file_exists, file_text>>
                   /\ pm_last' = Called("update", FALSE, FALSE, text, -1)
    /\ UNCHANGED <<pm_ready, updates, wmVars, emVars, agVars, svVars>>

\* ProceduralMemory.clear
PMClear(write_ok) ==
    /\ pm_ready /\ pm_ops < MaxPMOps
    /\ pm_ops' = pm_ops + 1
    /\ rules' = <<>>
    /\ SaveRules(rules', write_ok)
    /\ pm_last' = Called("clear", ~write_ok, write_ok, <<>>, -1)
    /\ UNCHANGED <<pm_ready, updates, wmVars, emVars, agVars, svVars>>

\* ProceduralMemory.add_rule
AddRule(instruction, rationale, write_ok) ==
    /\ pm_ready /\ pm_ops < MaxPMOps
    /\ pm_ops' = pm_ops + 1
    /\ rules' = Append(rules, Rule(Len(rules) + 1, instruction, rationale))
    /\ SaveRules(rules', write_ok)
    /\ pm_last' = Called("add_rule", ~write_ok, write_ok, <<>>, -1)
    /\ UNCHANGED <<pm_ready, updates, wmVars, emVars, agVars, svVars>>

\* ProceduralMemory.remove_rule
RemoveRule(index, write_ok) ==
    /\ pm_ready /\ pm_ops < MaxPMOps
    /\ pm_ops' = pm_ops + 1
    /\ IF 0 <= index - 1 /\ index - 1 < Len(rules)
       THEN /\ rules' = PopAndReindex(rules, index)
            /\ SaveRules(rules', write_ok)
            /\ pm_last' = Called("remove_rule", ~write_ok, write_ok, <<>>, index)
       ELSE /\ UNCHANGED <<rules, file_exists, file_text>>
            /\ pm_last' = Called("remove_rule", FALSE, FALSE, <<>>, index)
    /\ UNCHANGED <<pm_ready, updates, wmVars, emVars, agVars, svVars>>

\* Two callers of update on the one ProceduralMemory.
Updaters == {1, 2}

\* An updater that is not inside update, one that is suspended at
\* `await self.llm.ainvoke(prompt)` with the CURRENT RULES text its prompt was
\* built from, and what the rule list was set to by another updater's write
\* while this one was suspended (<<>>: no such write).
NoUpdate == [pc |-> "idle", prompt |-> <<>>, overwritten |-> <<>>]

Suspended(prompt) == [pc |-> "awaiting", prompt |-> prompt, overwritten |-> <<>>]

\* _create_update_prompt: the CURRENT RULES part of the prompt.
CurrentRulesText(rs) ==
    Join([i \in 1..Len(rs) |->
            IntToStr(i) \o <<".", " ">> \o rs[i].instruction \o Sep \o rs[i].rationale],
         <<NL>>)

\* update, up to its await: the prompt is built from self.rules.
UpdateBegin(u) ==
    /\ pm_ready
    /\ updates[u].pc = "idle"
    /\ pm_ops + Cardinality({v \in Updaters : updates[v].pc = "awaiting"}) < MaxPMOps
    /\ updates' = [updates EXCEPT ![u] = Suspended(CurrentRulesText(rules))]
    /\ UNCHANGED <<rules, file_exists, file_text, pm_ready, pm_last, pm_ops,
                   wmVars, emVars, agVars, svVars>>

\* update, from its await on: the completion call raises, or returns `text`,
\* which is parsed, assigned and saved.
UpdateFinish(u, llm_ok, text, write_ok) ==
    /\ updates[u].pc = "awaiting"
    /\ pm_ops' = pm_ops + 1
    /\ IF ~llm_ok
       THEN /\ pm_last' = CalledUpdateLLMFailed
            /\ UNCHANGED <<rules, file_exists, file_text>>
       ELSE LET new_rules == ParseRules(Strip(text))
            IN  /\ rules' = UpdatedRules(rules, new_rules)
                /\ IF new_rules # <<>>
                   THEN /\ SaveRules(rules', write_ok)
                        /\ pm_last' = Called("update", ~write_ok, write_ok, text, -1)
                   ELSE /\ UNCHANGED <<file_exists, file_text>>
                        /\ pm_last' = Called("update", FALSE, FALSE, text, -1)
    /\ updates' = [v \in Updaters |->
                    IF v = u THEN [updates[u] EXCEPT !.pc = "idle"]
                    ELSE IF updates[v].pc = "awaiting" /\ pm_last'.wrote
                              /\ updates[v].prompt = updates[u].prompt
                         THEN [updates[v] EXCEPT !.overwritten = <<rules'>>]
                         ELSE updates[v]]
    /\ UNCHANGED <<pm_ready, wmVars, emVars, agVars, svVars>>

(***************************************************************************)
(* EpisodicMemory.  The collection is the remote store the provider hands  *)
(* out; an object carries the properties store inserts and the two that    *)
(* retrieve writes, which are absent (<<>>) until the first retrieval.     *)
(***************************************************************************)
\* A JSON value of the reflection output: a string, a list of strings, null,
\* or no value at all (the key is omitted).
TextVal(s) == [kind |-> "str", val |-> s]

ListVal(l) == [kind |-> "list", val |-> l]

Null == [kind |-> "null", val |-> <<>>]

Absent == [kind |-> "absent", val |-> <<>>]

\* A wrong dict.get: an omitted key reads as null.
ReflectionGetNull(v, default) == IF v.kind = "absent" THEN Null ELSE v

\* reflection.get(key, default)
ReflectionGet(v, default) == IF v.kind = "absent" THEN default ELSE v

\* EpisodicMemoryEntry's validation of the four reflected fields:
\* context_tags: List[str], the three others: str.
EntryValid(tags, summary, worked, avoid) ==
    /\ tags.kind = "list"
    /\ summary.kind = "str"
    /\ worked.kind = "str"
    /\ avoid.kind = "str"

\* EpisodicMemory._format_conversation: "ROLE: content" lines, system
\* messages skipped.
FormatConversation(msgs) ==
    LET kept == SelectSeq(msgs, LAMBDA m : m.type # "system")
    IN  Join([i \in 1..Len(kept) |->
                <<(IF kept[i].type = "human" THEN "HUMAN" ELSE "AI"), ":", " ">>
                    \o kept[i].content],
             <<NL>>)

\* The value handed to a callee for a message list: the list itself, or the
\* coroutine object of an async method that was called without await.
Awaited(msgs) == [awaited |-> TRUE, value |-> msgs]

Coroutine == [awaited |-> FALSE, value |-> <<>>]

\* The object collection.data.insert creates from the entry.
Object(conversation, tags, summary, worked, avoid, t) ==
    [conversation |-> conversation, context_tags |-> tags,
     conversation_summary |-> summary, what_worked |-> worked,
     what_to_avoid |-> avoid, created_at |-> t,
     last_accessed |-> <<>>, access_count |-> <<>>]

\* How a store call ends: whether it raised EpisodicMemoryError, whether the
\* reflection chain returned an output, whether insert was attempted, and the
\* object inserted if any.
StoreOutcome(raised, reflected, attempted, stored) ==
    [raised |-> raised, reflected |-> reflected, attempted |-> attempted, stored |-> stored]

\* A wrong store: a failing reflection is swallowed and an entry of defaults
\* is inserted.
StoreResultSwallowing(arg, llm_ok, reflection, insert_ok, t) ==
    IF ~arg.awaited THEN StoreOutcome(TRUE, FALSE, FALSE, <<>>)
    ELSE StoreOutcome(FALSE, TRUE, TRUE,
            <<Object(FormatConversation(arg.value), ListVal(<<>>), TextVal(<<>>),
                     TextVal(<<>>), TextVal(<<>>), t)>>)

\* EpisodicMemory.store, everything inside its try block.
StoreResult(arg, llm_ok, reflection, insert_ok, t) ==
    IF ~arg.awaited THEN StoreOutcome(TRUE, FALSE, FALSE, <<>>)
    ELSE IF ~llm_ok THEN StoreOutcome(TRUE, FALSE, FALSE, <<>>)
    ELSE LET tags == ReflectionGet(reflection.context_tags, ListVal(<<>>))
             summary == ReflectionGet(reflection.conversation_summary, TextVal(<<>>))
             worked == ReflectionGet(reflection.what_worked, TextVal(<<>>))
             avoid == ReflectionGet(reflection.what_to_avoid, TextVal(<<>>))
         IN  IF ~EntryValid(tags, summary, worked, avoid)
             THEN StoreOutcome(TRUE, TRUE, FALSE, <<>>)
             ELSE IF ~insert_ok THEN StoreOutcome(TRUE, TRUE, TRUE, <<>>)
             ELSE StoreOutcome(FALSE, TRUE, TRUE,
                    <<Object(FormatConversation(arg.value), tags, summary, worked, avoid, t)>>)

\* props.get("access_count", 0)
AccessCount(obj) == IF obj.access_count = <<>> THEN 0 ELSE obj.access_count[1]

\* A wrong access update: the counter is written back as read.
AccessUpdateNoIncrement(obj, t) ==
    [obj EXCEPT !.last_accessed = <<t>>, !.access_count = <<AccessCount(obj)>>]

\* retrieve: collection.data.update of the top hit's access properties.
AccessUpdate(obj, t) ==
    [obj EXCEPT !.last_accessed = <<t>>, !.access_count = <<AccessCount(obj) + 1>>]

\* retrieve: the EpisodicMemoryEntry built from the properties read by the
\* query, that is before the access update.
EntryOf(obj, uuid, t) ==
    [id |-> uuid, conversation |-> obj.conversation, context_tags |-> obj.context_tags.val,
     conversation_summary |-> obj.conversation_summary.val,
     what_worked |-> obj.what_worked.val, what_to_avoid |-> obj.what_to_avoid.val,
     created_at |-> obj.created_at,
     last_accessed |-> IF obj.last_accessed = <<>> THEN t ELSE obj.last_accessed[1],
     access_count |-> AccessCount(obj)]

\* The record of an EpisodicMemory call: whether its two remote calls were
\* going to work (store: the reflection chain and insert; retrieve: the query
\* and update); for store its outcome and the reflection it got; for
\* retrieve the uuid of the top hit (0: no hit), the counter read and the
\* entry returned (<<>>: None, or it raised).
EMCalled(op, raised, env, out, reflection, hit, read, entry) ==
    [op |-> op, raised |-> raised, env |-> env, out |-> out, reflection |-> reflection,
     hit |-> hit, read |-> read, entry |-> entry]

NoReflection ==
    [context_tags |-> Absent, conversation_summary |-> Absent,
     what_worked |-> Absent, what_to_avoid |-> Absent]

NoOutcome == StoreOutcome(FALSE, FALSE, FALSE, <<>>)

\* EpisodicMemory.store on the collection.
DoEMStore(arg, llm_ok, reflection, insert_ok) ==
    LET out == StoreResult(arg, llm_ok, reflection, insert_ok, now)
    IN  /\ collection' = collection \o out.stored
        /\ em_last' = EMCalled("store", out.raised, <<llm_ok, insert_ok>>, out, reflection,
                                0, 0, <<>>)

\* EpisodicMemory.retrieve on the collection; `hit` is the top object of the
\* hybrid query's result, 0 when it has no objects.
DoEMRetrieve(hit, query_ok, update_ok) ==
    LET env == <<query_ok, update_ok>>
    IN
    IF ~query_ok
    THEN /\ em_last' = EMCalled("retrieve", TRUE, env, NoOutcome, NoReflection, 0, 0, <<>>)
         /\ UNCHANGED collection
    ELSE IF hit = 0
    THEN /\ em_last' = EMCalled("retrieve", FALSE, env, NoOutcome, NoReflection, 0, 0, <<>>)
         /\ UNCHANGED collection
    ELSE IF ~update_ok
    THEN /\ em_last' = EMCalled("retrieve", TRUE, env, NoOutcome, NoReflection, hit,
                                AccessCount(collection[hit]), <<>>)
         /\ UNCHANGED collection
    ELSE /\ collection' = [collection EXCEPT ![hit] = AccessUpdate(collection[hit], now)]
         /\ em_last' = EMCalled("retrieve", FALSE, env, NoOutcome, NoReflection, hit,
                                AccessCount(collection[hit]),
                                <<EntryOf(collection[hit], hit, now)>>)

\* EpisodicMemory.store, called directly with a message list.
EMStore(msgs, llm_ok, reflection, insert_ok) ==
    /\ em_ops < MaxEMOps
    /\ em_ops' = em_ops + 1
    /\ DoEMStore(Awaited(msgs), llm_ok, reflection, insert_ok)
    /\ Len(collection') <= MaxEntries
    /\ UNCHANGED <<now, wmVars, pmVars, agVars, svVars>>

\* EpisodicMemory.retrieve, called directly.
EMRetrieve(hit, query_ok, update_ok) ==
    /\ em_ops < MaxEMOps
    /\ em_ops' = em_ops + 1
    /\ DoEMRetrieve(hit, query_ok, update_ok)
    /\ UNCHANGED <<now, wmVars, pmVars, agVars, svVars>>

\* A wrong retrieve: the least relevant object of the result is taken.
LastHit(objs) == IF objs = <<>> THEN 0 ELSE objs[Len(objs)]

\* retrieve: `if result.objects: obj = result.objects[0]`; 0 when the result
\* has no objects.
FirstHit(objs) == IF objs = <<>> THEN 0 ELSE objs[1]

\* What collection.query.hybrid(limit=limit) may hand back: at most `limit`
\* distinct objects of the collection, in any order of relevance.
HybridResults(limit) ==
    LET n == IF limit <= Len(collection) THEN limit ELSE Len(collection)
    IN  { objs \in UNION { [1..k -> 1..Len(collection)] : k \in 0..n } :
            \A i, j \in 1..Len(objs) : i # j => objs[i] # objs[j] }

\* EpisodicMemory.retrieve(query, limit=limit), called directly; the query
\* hands back objs.
EMRetrieveLimit(limit, objs, query_ok, update_ok) ==
    /\ em_ops < MaxRankedOps
    /\ objs \in HybridResults(limit)
    /\ em_ops' = em_ops + 1
    /\ result_objects' = IF query_ok THEN objs ELSE <<>>
    /\ DoEMRetrieve(FirstHit(objs), query_ok, update_ok)
    /\ UNCHANGED <<now, wmVars, pmVars, agVars, session, mgr, added, st_ops, closes,
                   fetched, chunks>>

\* Time passes.
Tick ==
    /\ now < MaxClock
    /\ now' = now + 1
    /\ UNCHANGED <<collection, em_last, em_ops, wmVars, pmVars, agVars, svVars>>

(***************************************************************************)
(* MemoryAgent.  A caller is one invocation context of process_message;    *)
(* each await of the method is one step, so that calls of two callers on   *)
(* the one shared agent interleave at the awaits.                          *)
(***************************************************************************)
Procs == {1, 2}

\* WorkingMemory.__init__: max_size defaults to 50, and MemoryAgent passes none.
DefaultMaxSize == 50

\* AgentState.add_episodic keeps the last 10 summaries.
HistoryKept == 10

\* The prefix store_semantic puts before the semantic context.
SemanticTag == <<"[SEMANTIC CONTEXT]", NL>>

\* What EpisodicMemory.retrieve hands back: no entry (None) or one entry.
NoEntry == <<>>

\* ProceduralMemory.retrieve
PMRetrieve(rs) ==
    Join([i \in 1..Len(rs) |->
            IntToStr(i) \o <<".", " ">> \o rs[i].instruction \o Sep \o rs[i].rationale],
         <<NL>>)

\* MemoryAgent._create_system_prompt: one text embedding the episodic
\* reflection fields, if an entry was retrieved, and the procedural rule text.
CreateSystemPrompt(episodic, procedural) ==
    <<"[SYSTEM]">>
        \o (IF episodic # NoEntry
            THEN episodic[1].conversation_summary \o episodic[1].what_worked
                    \o episodic[1].what_to_avoid
            ELSE <<>>)
        \o procedural

\* A wrong add_episodic: beyond ten entries the newest are dropped.
AddEpisodicKeepOldest(history, summary) ==
    LET h == Append(history, summary)
    IN  IF Len(h) > HistoryKept THEN SubSeq(h, 1, HistoryKept) ELSE h

\* AgentState.add_episodic
AddEpisodic(history, summary) ==
    LET h == Append(history, summary)
    IN  IF Len(h) > HistoryKept THEN LastN(h, HistoryKept) ELSE h

\* MemoryAgent._update_state: folds the retrieved entry, if any, into the state.
UpdateState(st, episodic) ==
    IF episodic = NoEntry THEN st
    ELSE [episodic_history |-> AddEpisodic(st.episodic_history, episodic[1].conversation_summary),
          what_worked |-> st.what_worked \cup {episodic[1].what_worked},
          what_to_avoid |-> st.what_to_avoid \cup {episodic[1].what_to_avoid}]

\* AgentState(): the fields the agent folds retrievals into.
EmptyState == [episodic_history |-> <<>>, what_worked |-> {}, what_to_avoid |-> {}]

\* History record of the direct AgentState calls.
StateCalled(op, summaries) == [last |-> op, summaries |-> summaries]

\* What an AgentState call leaves alone.
StateFrame ==
    UNCHANGED <<initialized, pc, frame, trace, outcome, turns, raised_turns,
                provider_inits, calls, wmVars, pmVars, emVars,
                session, mgr, closes, fetched, chunks, result_objects>>

\* AgentState.add_episodic, called directly.
StateAddEpisodic(summary) ==
    /\ st_ops < MaxStateOps
    /\ state' = [state EXCEPT !.episodic_history = AddEpisodic(@, summary)]
    /\ added' = StateCalled("add_episodic", Append(added.summaries, summary))
    /\ st_ops' = st_ops + 1
    /\ StateFrame

\* AgentState.add_what_worked
StateAddWhatWorked(item) ==
    /\ st_ops < MaxStateOps
    /\ state' = [state EXCEPT !.what_worked = @ \cup {item}]
    /\ st_ops' = st_ops + 1
    /\ added' = StateCalled("add_what_worked", added.summaries)
    /\ StateFrame

\* AgentState.add_what_to_avoid
StateAddWhatToAvoid(item) ==
    /\ st_ops < MaxStateOps
    /\ state' = [state EXCEPT !.what_to_avoid = @ \cup {item}]
    /\ st_ops' = st_ops + 1
    /\ added' = StateCalled("add_what_to_avoid", added.summaries)
    /\ StateFrame

\* AgentState.reset
StateReset ==
    /\ st_ops < MaxStateOps
    /\ state' = EmptyState
    /\ added' = StateCalled("reset", <<>>)
    /\ st_ops' = st_ops + 1
    /\ StateFrame

\* The locals of a call of the agent: which method it is, those of
\* process_message, and `messages` of end_conversation.
CallFrame(call, user_input, msgs) ==
    [call |-> call, user_input |-> user_input, episodic |-> NoEntry, semantic |-> <<>>,
     procedural |-> <<>>, response |-> <<>>, messages |-> msgs]

\* The locals of a process_message call.
NewFrame(user_input) == CallFrame("process_message", user_input, Awaited(<<>>))

\* What a callee sees of a message-list argument.
ArgKind(arg) == IF arg.awaited THEN "list" ELSE "coroutine"

\* An entry of a caller's trace: the call made, and its argument or, for a
\* store, the message stored.
Event(call, type, arg) == [call |-> call, type |-> type, arg |-> arg]

StoreEvent(m) == Event("working_memory.store", m.type, m.content)

Outcome(kind, value) == [kind |-> kind, value |-> value]

\* str(e) of the exception raised by the await at `label`: one token per
\* failing call.
ErrorText(label) == <<label>>

(***************************************************************************)
(* ConversationManager, the code that runs when the awaited MemoryAgent    *)
(* call finishes.  self.conversation_id is the instant of construction     *)
(* formatted to the second, modelled as the clock value; start_time and    *)
(* end_time are <<>> for None and <<t>> for an instant.                    *)
(***************************************************************************)

\* ConversationManager.__init__ (and the two assignments of reset) at instant t.
NewSession(t) ==
    [conversation_id |-> t, messages |-> 0, start_time |-> <<>>, end_time |-> <<>>]

\* History record of caller p's ConversationManager call: the method, how it
\* ended (wrapped: the exception is an AgentError made by process), the
\* duration computed by end, and the summary end returned (<<>> if none).
MgrCall(method, out, wrapped, duration, summary) ==
    [method |-> method, outcome |-> out, wrapped |-> wrapped,
     duration |-> duration, summary |-> summary]

\* No ConversationManager method has been called by this caller.
NoCall == MgrCall("none", Outcome("none", <<>>), FALSE, 0, <<>>)

\* The text process puts before str(e).
ProcessFailure == "Failed to process message: "

\* A wrong process: the orchestrator's exception leaves process as it is.
PropagateOutcome(out) == out

\* ConversationManager.process after the await: return response, or
\* raise AgentError(f"Failed to process message: {e}").
ProcessOutcome(out) ==
    IF out.kind = "raised"
    THEN Outcome("raised", <<ProcessFailure>> \o out.value)
    ELSE out

\* max(a, b)
Max(a, b) == IF a >= b THEN a ELSE b

\* ConversationManager.end, the summary; avg_response_time is the quotient
\* duration / max(messages, 1), kept as numerator and denominator.
Summary(s, duration) ==
    [conversation_id |-> s.conversation_id,
     duration_seconds |-> duration,
     total_messages |-> s.messages,
     avg_response_time |-> [num |-> duration, den |-> Max(s.messages, 1)]]

\* The ConversationManager method of record c resumes with the outcome
\* `out` of the MemoryAgent call it awaited.
Resumed(c, out, s) ==
    CASE c.method = "process" ->
            MgrCall(c.method, ProcessOutcome(out), out.kind = "raised", 0, <<>>)
      [] c.method = "end" /\ out.kind = "returned" ->
            MgrCall(c.method, Outcome("returned", <<>>), FALSE, c.duration,
                    <<Summary(s, c.duration)>>)
      [] OTHER -> MgrCall(c.method, out, FALSE, c.duration, <<>>)

\* The variables no MemoryAgent step touches.
stVars == <<added, st_ops, closes, fetched, chunks, result_objects>>

\* The step of caller p that ends the MemoryAgent call a ConversationManager
\* method awaits also runs the rest of that method: process returns or
\* wraps, end builds its summary, reset assigns a new conversation_id and
\* new stats.
ManagerResumes(p) ==
    /\ IF mgr[p].outcome.kind = "running" /\ pc'[p] = "idle"
       THEN /\ mgr' = [mgr EXCEPT ![p] = Resumed(mgr[p], outcome'[p], session)]
            /\ session' = IF mgr[p].method = "reset" /\ outcome'[p].kind = "returned"
                          THEN NewSession(now')
                          ELSE session
       ELSE UNCHANGED <<session, mgr>>
    /\ UNCHANGED stVars

\* A wrong order: the semantic and procedural retrievals are skipped.
SuccessorSkippingRetrievals(label, semantic) ==
    CASE label = "provider.initialize" -> "procedural.initialize"
      [] label = "procedural.initialize" -> "episodic.retrieve"
      [] label = "episodic.retrieve" -> "store_system"
      [] label = "semantic.retrieve" -> "procedural.retrieve"
      [] label = "procedural.retrieve" -> "store_system"
      [] label = "store_system" -> IF semantic # <<>> THEN "store_semantic" ELSE "store_user"
      [] label = "store_semantic" -> "store_user"
      [] label = "store_user" -> "llm.ainvoke"
      [] label = "llm.ainvoke" -> "store_ai"
      [] label = "store_ai" -> "idle"

\* A wrong order: the system prompt is stored before the semantic retrieval.
SuccessorStoringEarly(label, semantic) ==
    CASE label = "provider.initialize" -> "procedural.initialize"
      [] label = "procedural.initialize" -> "episodic.retrieve"
      [] label = "episodic.retrieve" -> "procedural.retrieve"
      [] label = "procedural.retrieve" -> "store_system"
      [] label = "store_system" -> "semantic.retrieve"
      [] label = "semantic.retrieve" -> IF semantic # <<>> THEN "store_semantic" ELSE "store_user"
      [] label = "store_semantic" -> "store_user"
      [] label = "store_user" -> "llm.ainvoke"
      [] label = "llm.ainvoke" -> "store_ai"
      [] label = "store_ai" -> "idle"

\* A wrong branch: the semantic context is never stored.
SuccessorDroppingSemantic(label, semantic) ==
    CASE label = "provider.initialize" -> "procedural.initialize"
      [] label = "procedural.initialize" -> "episodic.retrieve"
      [] label = "episodic.retrieve" -> "semantic.retrieve"
      [] label = "semantic.retrieve" -> "procedural.retrieve"
      [] label = "procedural.retrieve" -> "store_system"
      [] label = "store_system" -> "store_user"
      [] label = "store_semantic" -> "store_user"
      [] label = "store_user" -> "llm.ainvoke"
      [] label = "llm.ainvoke" -> "store_ai"
      [] label = "store_ai" -> "idle"

\* The await that follows the await `label` in initialize and process_message;
\* `semantic` is the local the branch `if semantic:` reads.
Successor(label, semantic) ==
    CASE label = "provider.initialize" -> "procedural.initialize"
      [] label = "procedural.initialize" -> "episodic.retrieve"
      [] label = "episodic.retrieve" -> "semantic.retrieve"
      [] label = "semantic.retrieve" -> "procedural.retrieve"
      [] label = "procedural.retrieve" -> "store_system"
      [] label = "store_system" -> IF semantic # <<>> THEN "store_semantic" ELSE "store_user"
      [] label = "store_semantic" -> "store_user"
      [] label = "store_user" -> "llm.ainvoke"
      [] label = "llm.ainvoke" -> "store_ai"
      [] label = "store_ai" -> "idle"

\* Caller p moves on from the await it is at; a direct call of initialize
\* returns after procedural.initialize.
Advance(p) ==
    pc' = [pc EXCEPT ![p] =
            IF frame[p].call = "initialize" /\ pc[p] = "procedural.initialize"
            THEN "idle"
            ELSE Successor(pc[p], frame'[p].semantic)]

\* A wrong failure path: the exception is swallowed and the call returns.
RaiseSwallowed(p) ==
    /\ pc' = [pc EXCEPT ![p] = "idle"]
    /\ outcome' = [outcome EXCEPT ![p] = Outcome("returned", <<>>)]
    /\ raised_turns' = raised_turns + 1

\* A wrong failure path: after a failed episodic store the call goes on to
\* the rule update.
RaiseContinuing(p) ==
    /\ pc' = [pc EXCEPT ![p] = IF pc[p] = "episodic.store" THEN "procedural.update" ELSE "idle"]
    /\ outcome' = IF pc[p] = "episodic.store" THEN outcome
                  ELSE [outcome EXCEPT ![p] = Outcome("raised", ErrorText(pc[p]))]
    /\ raised_turns' = raised_turns + 1

\* An exception propagates out of caller p's process_message.
Raise(p) ==
    /\ pc' = [pc EXCEPT ![p] = "idle"]
    /\ outcome' = [outcome EXCEPT ![p] = Outcome("raised", ErrorText(pc[p]))]
    /\ raised_turns' = raised_turns + 1

Log(p, e) == trace' = [trace EXCEPT ![p] = Append(trace[p], e)]

\* process_message is called: runs to its first await.
CallProcessMessage(p, user_input) ==
    /\ pc[p] = "idle"
    /\ turns' = turns + 1
    /\ frame' = [frame EXCEPT ![p] = NewFrame(user_input)]
    /\ trace' = [trace EXCEPT ![p] = <<>>]
    /\ outcome' = [outcome EXCEPT ![p] = Outcome("running", <<>>)]
    /\ pc' = [pc EXCEPT ![p] =
                IF ~initialized THEN "provider.initialize" ELSE "episodic.retrieve"]
    /\ UNCHANGED <<initialized, state, raised_turns, provider_inits, wmVars, pmVars,
                   emVars, calls>>

\* process_message, called directly on the agent.
ProcessMessage(p, user_input) == CallProcessMessage(p, user_input) /\ UNCHANGED svVars

\* initialize: await self.provider.initialize()
InitProvider(p, ok) ==
    /\ pc[p] = "provider.initialize"
    /\ provider_inits' = provider_inits + 1
    /\ Log(p, Event("provider.initialize", "", <<>>))
    /\ IF ok
       THEN Advance(p) /\ UNCHANGED <<outcome, raised_turns>>
       ELSE Raise(p)
    /\ UNCHANGED <<initialized, state, frame, turns, wmVars, pmVars,
                   emVars, calls>>
    /\ ManagerResumes(p)

\* initialize: await self.procedural_memory.initialize(); self.initialized = True
InitProcedural(p, write_ok) ==
    /\ pc[p] = "procedural.initialize"
    /\ DoPMInitialize(write_ok)
    /\ Log(p, Event("procedural.initialize", "", <<>>))
    /\ IF pm_last'.raised
       THEN Raise(p) /\ UNCHANGED initialized
       ELSE /\ Advance(p)
            /\ initialized' = TRUE
            /\ outcome' = IF frame[p].call = "initialize"
                          THEN [outcome EXCEPT ![p] = Outcome("returned", <<>>)]
                          ELSE outcome
            /\ UNCHANGED raised_turns
    /\ UNCHANGED <<state, frame, turns, provider_inits, updates, wmVars, emVars, calls>>
    /\ ManagerResumes(p)

\* episodic = await self.episodic_memory.retrieve(user_input)
RetrieveEpisodic(p, hit, query_ok, update_ok) ==
    /\ pc[p] = "episodic.retrieve"
    /\ Log(p, Event("episodic.retrieve", "", frame[p].user_input))
    /\ DoEMRetrieve(hit, query_ok, update_ok)
    /\ IF em_last'.raised
       THEN Raise(p) /\ UNCHANGED frame
       ELSE /\ frame' = [frame EXCEPT ![p].episodic = em_last'.entry]
            /\ Advance(p)
            /\ UNCHANGED <<outcome, raised_turns>>
    /\ UNCHANGED <<initialized, state, turns, provider_inits, wmVars, pmVars,
                   now, em_ops, calls>>
    /\ ManagerResumes(p)

\* semantic = await self.semantic_memory.retrieve(user_input)
RetrieveSemantic(p, ok, result) ==
    /\ pc[p] = "semantic.retrieve"
    /\ Log(p, Event("semantic.retrieve", "", frame[p].user_input))
    /\ IF ok
       THEN /\ frame' = [frame EXCEPT ![p].semantic = result]
            /\ Advance(p)
            /\ UNCHANGED <<outcome, raised_turns>>
       ELSE Raise(p) /\ UNCHANGED frame
    /\ UNCHANGED <<initialized, state, turns, provider_inits, wmVars, pmVars,
                   emVars, calls>>
    /\ ManagerResumes(p)

\* procedural = await self.procedural_memory.retrieve()
RetrieveProcedural(p) ==
    /\ pc[p] = "procedural.retrieve"
    /\ Log(p, Event("procedural.retrieve", "", <<>>))
    /\ frame' = [frame EXCEPT ![p].procedural = PMRetrieve(rules)]
    /\ Advance(p)
    /\ UNCHANGED <<initialized, state, outcome, turns, raised_turns, provider_inits,
                   wmVars, pmVars,
                   emVars, calls>>
    /\ ManagerResumes(p)

\* Caller p awaits a WorkingMemory.store_* call that stores m.
StoreStep(p, m) ==
    /\ DoStore(m)
    /\ Log(p, StoreEvent(m))
    /\ UNCHANGED <<max_size, wm_ops, wm_last, pmVars, initialized, turns, raised_turns,
                   provider_inits, frame, emVars, calls>>

\* system_prompt = await self._create_system_prompt(episodic, procedural)
\* await self.working_memory.store_system(system_prompt)
StoreSystemPrompt(p) ==
    /\ pc[p] = "store_system"
    /\ StoreStep(p, SystemMessage(CreateSystemPrompt(frame[p].episodic, frame[p].procedural)))
    /\ Advance(p)
    /\ UNCHANGED <<state, outcome>>
    /\ ManagerResumes(p)

\* await self.working_memory.store_semantic(semantic)
StoreSemantic(p) ==
    /\ pc[p] = "store_semantic"
    /\ StoreStep(p, HumanMessage(SemanticTag \o frame[p].semantic))
    /\ Advance(p)
    /\ UNCHANGED <<state, outcome>>
    /\ ManagerResumes(p)

\* await self.working_memory.store_user(user_input)
StoreUser(p) ==
    /\ pc[p] = "store_user"
    /\ StoreStep(p, HumanMessage(frame[p].user_input))
    /\ Advance(p)
    /\ UNCHANGED <<state, outcome>>
    /\ ManagerResumes(p)

\* response = await self.llm.ainvoke(self.working_memory.get_messages()): the
\* argument is the coroutine object of the async get_messages, not awaited.
InvokeLLM(p, ok, reply) ==
    /\ pc[p] = "llm.ainvoke"
    /\ Log(p, Event("llm.ainvoke", ArgKind(Coroutine), Coroutine.value))
    /\ IF ok
       THEN /\ frame' = [frame EXCEPT ![p].response = reply]
            /\ Advance(p)
            /\ UNCHANGED <<outcome, raised_turns>>
       ELSE Raise(p) /\ UNCHANGED frame
    /\ UNCHANGED <<initialized, state, turns, provider_inits, wmVars, pmVars,
                   emVars, calls>>
    /\ ManagerResumes(p)

\* A wrong end of the turn: the reply is stored and returned without
\* self._update_state(episodic).
StoreAIKeepingState(p) ==
    /\ pc[p] = "store_ai"
    /\ StoreStep(p, AIMessage(frame[p].response))
    /\ state' = state
    /\ outcome' = [outcome EXCEPT ![p] = Outcome("returned", frame[p].response)]
    /\ Advance(p)
    /\ ManagerResumes(p)

\* await self.working_memory.store_ai(response.content)
\* self._update_state(episodic); return response.content
StoreAIAndReturn(p) ==
    /\ pc[p] = "store_ai"
    /\ StoreStep(p, AIMessage(frame[p].response))
    /\ state' = UpdateState(state, frame[p].episodic)
    /\ outcome' = [outcome EXCEPT ![p] = Outcome("returned", frame[p].response)]
    /\ Advance(p)
    /\ ManagerResumes(p)

\* A wrong initialize: the initialized flag is not consulted.
InitializeAgain(p) ==
    /\ pc[p] = "idle"
    /\ calls' = calls + 1
    /\ frame' = [frame EXCEPT ![p] = CallFrame("initialize", <<>>, Awaited(<<>>))]
    /\ trace' = [trace EXCEPT ![p] = <<>>]
    /\ pc' = [pc EXCEPT ![p] = "provider.initialize"]
    /\ outcome' = [outcome EXCEPT ![p] = Outcome("running", <<>>)]
    /\ UNCHANGED <<initialized, state, turns, raised_turns, provider_inits,
                   wmVars, pmVars, emVars, svVars>>

\* initialize is called: returns at once on an initialized agent, else runs
\* to its first await.
CallInitialize(p) ==
    /\ pc[p] = "idle"
    /\ calls' = calls + 1
    /\ frame' = [frame EXCEPT ![p] = CallFrame("initialize", <<>>, Awaited(<<>>))]
    /\ trace' = [trace EXCEPT ![p] = <<>>]
    /\ IF initialized
       THEN /\ outcome' = [outcome EXCEPT ![p] = Outcome("returned", <<>>)]
            /\ UNCHANGED pc
       ELSE /\ pc' = [pc EXCEPT ![p] = "provider.initialize"]
            /\ outcome' = [outcome EXCEPT ![p] = Outcome("running", <<>>)]
    /\ UNCHANGED <<initialized, state, turns, raised_turns, provider_inits,
                   wmVars, pmVars, emVars>>

\* initialize, called directly on the agent.
Initialize(p) == CallInitialize(p) /\ UNCHANGED svVars

\* end_conversation is called: messages = self.working_memory.get_messages(
\* exclude_system=True), an async method called without await, is a coroutine
\* object; the call runs to `await self.episodic_memory.store(messages)`.
CallEndConversation(p) ==
    /\ pc[p] = "idle"
    /\ calls' = calls + 1
    /\ frame' = [frame EXCEPT ![p] = CallFrame("end_conversation", <<>>, Coroutine)]
    /\ trace' = [trace EXCEPT ![p] = <<>>]
    /\ pc' = [pc EXCEPT ![p] = "episodic.store"]
    /\ outcome' = [outcome EXCEPT ![p] = Outcome("running", <<>>)]
    /\ UNCHANGED <<initialized, state, turns, raised_turns, provider_inits,
                   wmVars, pmVars, emVars>>

\* end_conversation, called directly on the agent.
EndConversation(p) == CallEndConversation(p) /\ UNCHANGED svVars

\* The awaits of end_conversation, one per step: episodic_memory.store(messages);
\* procedural_memory.update(list(what_worked), list(what_to_avoid));
\* working_memory.clear() followed by self.state.reset() and the return.
EndConversationStep(p, llm_ok, reflection, insert_ok, text, write_ok) ==
    /\ frame[p].call = "end_conversation"
    /\ pc[p] \in {"episodic.store", "procedural.update", "working_memory.clear"}
    /\ CASE pc[p] = "episodic.store" ->
                /\ DoEMStore(frame[p].messages, llm_ok, reflection, insert_ok)
                /\ Log(p, Event("episodic.store", ArgKind(frame[p].messages),
                                frame[p].messages.value))
                /\ IF em_last'.raised
                   THEN Raise(p)
                   ELSE /\ pc' = [pc EXCEPT ![p] = "procedural.update"]
                        /\ UNCHANGED <<outcome, raised_turns>>
                /\ UNCHANGED <<wmVars, pmVars, state, now, em_ops>>
          [] pc[p] = "procedural.update" ->
                /\ Log(p, Event("procedural.update", "",
                                <<state.what_worked, state.what_to_avoid>>))
                /\ IF ~llm_ok
                   THEN /\ pm_last' = CalledUpdateLLMFailed
                        /\ UNCHANGED <<rules, file_exists, file_text>>
                   ELSE LET new_rules == ParseRules(Strip(text))
                        IN  /\ rules' = UpdatedRules(rules, new_rules)
                            /\ IF new_rules # <<>>
                               THEN /\ SaveRules(rules', write_ok)
                                    /\ pm_last' = Called("update", ~write_ok, write_ok, text, -1)
                               ELSE /\ UNCHANGED <<file_exists, file_text>>
                                    /\ pm_last' = Called("update", FALSE, FALSE, text, -1)
                /\ IF pm_last'.raised
                   THEN Raise(p)
                   ELSE /\ pc' = [pc EXCEPT ![p] = "working_memory.clear"]
                        /\ UNCHANGED <<outcome, raised_turns>>
                /\ UNCHANGED <<pm_ready, pm_ops, updates, wmVars, emVars, state>>
          [] pc[p] = "working_memory.clear" ->
                /\ messages' = <<>>
                /\ metadata' = ZeroMetadata
                /\ appended' = <<>>
                /\ state' = EmptyState
                /\ Log(p, Event("working_memory.clear", "", <<>>))
                /\ pc' = [pc EXCEPT ![p] = "idle"]
                /\ outcome' = [outcome EXCEPT ![p] = Outcome("returned", <<>>)]
                /\ UNCHANGED <<max_size, wm_ops, wm_last, pmVars, emVars, raised_turns>>
    /\ UNCHANGED <<initialized, frame, turns, provider_inits, calls>>
    /\ ManagerResumes(p)

\* A wrong shutdown: the provider is closed only while the agent is initialized
\* and the flag is lowered.
ShutdownGuarded(p) ==
    /\ pc[p] = "idle"
    /\ calls' = calls + 1
    /\ closes' = IF initialized THEN closes + 1 ELSE closes
    /\ initialized' = FALSE
    /\ outcome' = [outcome EXCEPT ![p] = Outcome("returned", <<>>)]
    /\ frame' = [frame EXCEPT ![p] = CallFrame("shutdown", <<>>, Awaited(<<>>))]
    /\ trace' = [trace EXCEPT ![p] = <<Event("provider.close", "", <<>>)>>]
    /\ UNCHANGED <<state, pc, turns, raised_turns, provider_inits,
                   wmVars, pmVars, emVars, session, mgr, added, st_ops, fetched, chunks, result_objects>>

\* MemoryAgent.shutdown: await self.provider.close(), which has no await of
\* its own, so the call is one step.
Shutdown(p) ==
    /\ pc[p] = "idle"
    /\ calls' = calls + 1
    /\ closes' = closes + 1
    /\ outcome' = [outcome EXCEPT ![p] = Outcome("returned", <<>>)]
    /\ frame' = [frame EXCEPT ![p] = CallFrame("shutdown", <<>>, Awaited(<<>>))]
    /\ trace' = [trace EXCEPT ![p] = <<Event("provider.close", "", <<>>)>>]
    /\ UNCHANGED <<initialized, state, pc, turns, raised_turns, provider_inits,
                   wmVars, pmVars, emVars, session, mgr, added, st_ops, fetched, chunks, result_objects>>

(***************************************************************************)
(* SemanticMemory.get_by_source.  An object of the store is [uuid,         *)
(* chunk_index], chunk_index being <<>> when the property is absent and    *)
(* <<i>> otherwise; a SemanticChunk is [id, chunk_index].                  *)
(***************************************************************************)

\* An object as fetch_objects returns it.
StoredChunk(uuid, index) == [uuid |-> uuid, chunk_index |-> index]

\* SemanticChunk(id=str(obj.uuid), ..., chunk_index=props.get("chunk_index", 0), ...)
ChunkOf(obj) ==
    [id |-> obj.uuid,
     chunk_index |-> IF obj.chunk_index = <<>> THEN 0 ELSE obj.chunk_index[1]]

\* The loop over results.objects.
ChunksOf(objs) == [i \in 1..Len(objs) |-> ChunkOf(objs[i])]

\* The place list.sort gives c among the sorted chunks cs: behind every
\* chunk whose key is not greater (the sort is stable).
RECURSIVE InsertChunk(_, _)
InsertChunk(cs, c) ==
    IF cs = <<>> THEN <<c>>
    ELSE IF Head(cs).chunk_index <= c.chunk_index
         THEN <<Head(cs)>> \o InsertChunk(Tail(cs), c)
         ELSE <<c>> \o cs

\* A wrong get_by_source: the chunks are returned in the order of the store.
StoreOrder(cs) == cs

\* chunks.sort(key=lambda x: x.chunk_index)
RECURSIVE SortChunks(_)
SortChunks(cs) ==
    IF cs = <<>> THEN <<>>
    ELSE InsertChunk(SortChunks(SubSeq(cs, 1, Len(cs) - 1)), cs[Len(cs)])

\* History record of get_by_source.
Fetched(called, raised, value) == [called |-> called, raised |-> raised, value |-> value]

\* SemanticMemory.get_by_source: the fetch returns `fetched` or fails, and a
\* failure is raised as SemanticMemoryError.
GetBySource(fetch_ok) ==
    /\ ~chunks.called
    /\ chunks' = IF fetch_ok
                 THEN Fetched(TRUE, FALSE, SortChunks(ChunksOf(fetched)))
                 ELSE Fetched(TRUE, TRUE, <<>>)
    /\ UNCHANGED <<fetched, result_objects, session, mgr, added, st_ops, closes,
                   wmVars, pmVars, emVars, agVars>>

(***************************************************************************)
(* ConversationManager, the methods up to their await.                     *)
(***************************************************************************)

\* The caller enters a ConversationManager method that awaits the agent.
Awaiting(p, method, duration) ==
    mgr' = [mgr EXCEPT ![p] = MgrCall(method, Outcome("running", <<>>), FALSE, duration, <<>>)]

\* The ConversationManager method ends without awaiting the agent.
Ended(p, method, out) ==
    /\ mgr' = [mgr EXCEPT ![p] = MgrCall(method, out, FALSE, 0, <<>>)]
    /\ calls' = calls + 1
    /\ UNCHANGED <<initialized, state, pc, frame, trace, outcome, turns, raised_turns,
                   provider_inits, wmVars, pmVars, emVars>>

\* ConversationManager.start
MgrStart(p) ==
    /\ pc[p] = "idle"
    /\ session' = [session EXCEPT !.start_time = <<now>>]
    /\ IF ~initialized
       THEN CallInitialize(p) /\ Awaiting(p, "start", 0)
       ELSE Ended(p, "start", Outcome("returned", <<>>))
    /\ UNCHANGED stVars

\* ConversationManager.process up to `await self.agent.process_message`.
MgrProcess(p, user_input) ==
    /\ session' = [session EXCEPT !.messages = session.messages + 1]
    /\ CallProcessMessage(p, user_input)
    /\ Awaiting(p, "process", 0)
    /\ UNCHANGED stVars

\* A wrong end: an unset start_time counts as a duration of 0 and the agent
\* is called all the same.
MgrEndUnchecked(p) ==
    /\ pc[p] = "idle"
    /\ session' = [session EXCEPT !.end_time = <<now>>]
    /\ CallEndConversation(p)
    /\ Awaiting(p, "end", IF session.start_time = <<>> THEN 0
                          ELSE now - session.start_time[1])
    /\ UNCHANGED stVars

\* ConversationManager.end up to `await self.agent.end_conversation()`; with
\* start_time None the subtraction raises TypeError before the agent is called.
MgrEnd(p) ==
    /\ pc[p] = "idle"
    /\ session' = [session EXCEPT !.end_time = <<now>>]
    /\ IF session.start_time = <<>>
       THEN Ended(p, "end", Outcome("raised", <<"TypeError">>))
       ELSE CallEndConversation(p) /\ Awaiting(p, "end", now - session.start_time[1])
    /\ UNCHANGED stVars

\* ConversationManager.reset up to `await self.agent.end_conversation()`.
MgrReset(p) ==
    /\ CallEndConversation(p)
    /\ Awaiting(p, "reset", 0)
    /\ UNCHANGED <<session, stVars>>

(***************************************************************************)
(* Inputs.                                                                 *)
(***************************************************************************)
\* n numbered lines "i. a - b", joined by newlines.
NumberedLines(n) ==
    Join([i \in 1..n |-> IntToStr(i) \o <<".", " ", "a">> \o Sep \o <<"b">>], <<NL>>)

\* Texts the completion capability may return to update.
LLMTexts ==
    { <<>>,
      <<" ", NL, " ">>,
      <<"1", ".", " ", "a", " ", "-", " ", "b", NL, NL, "2", ".", " ", "b">>,
      NumberedLines(MaxRulesKept + 2) }

\* Contents of the backing file found at construction.
InitialFiles ==
    { <<"1", ".", " ", "a", " ", "-", " ", "b">>,
      NumberedLines(MaxRulesKept + 1) }

Instructions == { <<"a">>, <<"b">> }

Rationales == { <<>>, <<"b">> }

\* Instructions handed to add_rule when the file is read back: a plain one,
\* one that contains the separator and one that begins with an ordinal.
ReloadInstructions ==
    { <<"a">>, <<"a">> \o Sep \o <<"c">>, <<"2", ".", " ", "a">> }

\* Rules a caller may hand to store: the index is the caller's.
StoredRules == { Rule(i, <<"a">>, <<"b">>) : i \in {1, 5} }

RemoveIndexes == 0..3

\* The n of remove_last: negative, zero, within and beyond the log.
RemoveCounts == -1..MaxSize

\* The type keyword of retrieve: not passed, the three names the filter
\* recognises, an upper-case spelling, and names it does not recognise.
TypeNames == { <<>>, <<"system">>, <<"user">>, <<"ai">>, <<"AI">>, <<"assistant">> }

\* The limit keyword of retrieve: not passed, negative, zero and positive.
Limits == { <<>> } \cup { <<n>> : n \in -1..2 }

\* The chunk_index property of a stored object: absent, or 0..MaxChunkIndex.
ChunkIndexes == { <<>> } \cup { <<i>> : i \in 0..MaxChunkIndex }

\* What fetch_objects can return for a source: up to MaxFetched objects with
\* different uuids, in any order, with any chunk_index each.
FetchedLists ==
    UNION { { objs \in [1..n -> { StoredChunk(u, x) : u \in 1..MaxFetched, x \in ChunkIndexes }] :
                \A i, j \in 1..n : i # j => objs[i].uuid # objs[j].uuid }
            : n \in 0..MaxFetched }

\* The summaries and items handed to AgentState directly.
Summaries == { <<"a">>, <<"b">> }
Items == { <<"w">> }

\* What the callers say.
UserInputs == { <<"u">>, <<"v">> }

\* What the retrievals and the completion capability hand back.
\* Message lists handed to EpisodicMemory.store.
Transcripts ==
    { <<SystemMessage(<<"a">>), HumanMessage(<<"a">>), AIMessage(<<"b">>)>>,
      <<HumanMessage(<<"b">>)>> }

\* What the reflection chain may hand back for a text field and for the tags.
TextOutputs == { Absent, TextVal(<<"s">>), Null, ListVal(<<"t">>) }

TagOutputs == { Absent, ListVal(<<"t">>), Null, TextVal(<<"s">>) }

\* Reflection outputs: every subset of the four fields omitted, the others
\* well-formed; and each field in turn malformed, the others well-formed.
Reflections ==
    LET all == [context_tags : TagOutputs, conversation_summary : TextOutputs,
                what_worked : TextOutputs, what_to_avoid : TextOutputs]
        Good(v) == v.kind = "absent" \/ v = TextVal(<<"s">>)
        GoodTags(v) == v.kind = "absent" \/ v = ListVal(<<"t">>)
        Bad(r) == (IF GoodTags(r.context_tags) THEN 0 ELSE 1)
                    + (IF Good(r.conversation_summary) THEN 0 ELSE 1)
                    + (IF Good(r.what_worked) THEN 0 ELSE 1)
                    + (IF Good(r.what_to_avoid) THEN 0 ELSE 1)
        Omitted(r) == \E f \in {"context_tags", "conversation_summary", "what_worked",
                                 "what_to_avoid"} : r[f].kind = "absent"
    IN  { r \in all : Bad(r) = 0 \/ (Bad(r) = 1 /\ ~Omitted(r)) }

\* The reflection output of a conversation's end.
EndReflections ==
    { [context_tags |-> ListVal(<<"t">>), conversation_summary |-> TextVal(<<"s">>),
       what_worked |-> TextVal(<<"s">>), what_to_avoid |-> TextVal(<<"s">>)] }

\* The completion output of the rule update at a conversation's end.
EndUpdateTexts == { <<"1", ".", " ", "a", " ", "-", " ", "b">> }

\* What caller p says when two callers share the agent.
UserInputOf(p) == IF p = 1 THEN <<"u">> ELSE <<"v">>

\* An object found in the collection when the agent is constructed.
SeedObject ==
    Object(<<"HUMAN", ":", " ", "u">>, ListVal(<<"t">>), TextVal(<<"s">>),
           TextVal(<<"w">>), TextVal(<<"x">>), 0)

\* A second entry of the collection, of another conversation.
OtherObject ==
    Object(<<"HUMAN", ":", " ", "v">>, ListVal(<<"t">>), TextVal(<<"z">>),
           TextVal(<<>>), TextVal(<<>>), 0)

SemanticResults == { <<>>, <<"c">> }

Replies == { <<"r">> }

(***************************************************************************)
(* Specifications.                                                         *)
(***************************************************************************)
\* WorkingMemory.__init__
WMInit ==
    /\ messages = <<>>
    /\ metadata = ZeroMetadata
    /\ appended = <<>>
    /\ wm_ops = 0
    /\ wm_last = WMCalled("__init__", <<>>, <<>>, 0, <<>>)

\* ProceduralMemory.__init__, with the backing file absent or present.
PMInit ==
    /\ rules = <<>>
    /\ pm_ready = FALSE
    /\ pm_last = Called("__init__", FALSE, FALSE, <<>>, -1)
    /\ pm_ops = 0
    /\ updates = [u \in Updaters |-> NoUpdate]
    /\ \/ file_exists = FALSE /\ file_text = <<>>
       \/ file_exists = TRUE /\ file_text \in InitialFiles

\* The state of a WorkingMemory that is not exercised.
WMIdle == WMInit /\ max_size = 0

\* ConversationManager, AgentState history, provider and get_by_source when
\* they are not exercised.
SVIdle ==
    /\ session = NewSession(0)
    /\ mgr = [p \in Procs |-> NoCall]
    /\ added = StateCalled("__init__", <<>>)
    /\ st_ops = 0
    /\ closes = 0
    /\ fetched = <<>>
    /\ result_objects = <<>>
    /\ chunks = Fetched(FALSE, FALSE, <<>>)

\* The state of a ProceduralMemory that is not exercised.
PMIdle ==
    /\ rules = <<>>
    /\ pm_ready = FALSE
    /\ pm_last = Called("__init__", FALSE, FALSE, <<>>, -1)
    /\ pm_ops = 0
    /\ updates = [u \in Updaters |-> NoUpdate]
    /\ file_exists = FALSE
    /\ file_text = <<>>

\* MemoryAgent.__init__
AgentInit ==
    /\ initialized = FALSE
    /\ state = EmptyState
    /\ pc = [p \in Procs |-> "idle"]
    /\ frame = [p \in Procs |-> NewFrame(<<>>)]
    /\ trace = [p \in Procs |-> <<>>]
    /\ outcome = [p \in Procs |-> Outcome("none", <<>>)]
    /\ turns = 0
    /\ raised_turns = 0
    /\ provider_inits = 0
    /\ calls = 0

\* EpisodicMemory.__init__, on an empty collection.
EMInit ==
    /\ collection = <<>>
    /\ now = 0
    /\ em_last = EMCalled("__init__", FALSE, <<TRUE, TRUE>>, NoOutcome, NoReflection, 0, 0, <<>>)
    /\ em_ops = 0

\* A WorkingMemory of any capacity 0..MaxSize under store, clear and remove_last.
InitWM == WMInit /\ max_size \in 0..MaxSize /\ PMIdle /\ AgentInit /\ EMInit /\ SVIdle

NextWM ==
    \/ \E m \in Messages : Store(m)
    \/ Clear
    \/ \E n \in RemoveCounts : RemoveLast(n)

SpecWM == InitWM /\ [][NextWM]_vars

\* A WorkingMemory of any capacity 0..MaxSize under store and retrieve.
NextRetrieve ==
    \/ \E m \in Messages : wm_ops < MaxRetrieveOps /\ Store(m)
    \/ \E t \in TypeNames, l \in Limits : wm_ops < MaxRetrieveOps /\ Retrieve(t, l)

SpecRetrieve == InitWM /\ [][NextRetrieve]_vars

\* A WorkingMemory of any capacity 0..MaxSize under store alone.
NextAppend == \E m \in Messages : Store(m)

SpecAppend == InitWM /\ [][NextAppend]_vars

\* A ProceduralMemory under all of its mutating methods.
Init == PMInit /\ WMIdle /\ AgentInit /\ EMInit /\ SVIdle

Next ==
    \/ \E w \in BOOLEAN : PMInitialize(w)
    \/ \E r \in StoredRules, w \in BOOLEAN : PMStore(r, w)
    \/ PMUpdateLLMFails
    \/ \E t \in LLMTexts, w \in BOOLEAN : PMUpdate(t, w)
    \/ \E w \in BOOLEAN : PMClear(w)
    \/ \E i \in Instructions, r \in Rationales, w \in BOOLEAN : AddRule(i, r, w)
    \/ \E i \in RemoveIndexes, w \in BOOLEAN : RemoveRule(i, w)

Spec == Init /\ [][Next]_vars

\* A MemoryAgent as constructed, its backing file absent or holding one rule.
InitAgent ==
    /\ AgentInit
    /\ WMInit /\ max_size = DefaultMaxSize
    /\ PMInit /\ (file_exists => file_text = <<"1", ".", " ", "a", " ", "-", " ", "b">>)
    /\ now = 0
    /\ em_last = EMCalled("__init__", FALSE, <<TRUE, TRUE>>, NoOutcome, NoReflection, 0, 0, <<>>)
    /\ em_ops = 0
    /\ collection \in { <<>>, <<SeedObject>> }
    /\ SVIdle

\* The awaits of initialize and process_message, one per step.
CallerSteps(p) ==
    \/ \E ok \in BOOLEAN : InitProvider(p, ok)
    \/ \E w \in BOOLEAN : InitProcedural(p, w)
    \/ \E h \in 0..Len(collection), q \in BOOLEAN, u \in BOOLEAN :
            RetrieveEpisodic(p, h, q, u)
    \/ \E ok \in BOOLEAN, c \in SemanticResults : RetrieveSemantic(p, ok, c)
    \/ RetrieveProcedural(p)
    \/ StoreSystemPrompt(p)
    \/ StoreSemantic(p)
    \/ StoreUser(p)
    \/ \E ok \in BOOLEAN, r \in Replies : InvokeLLM(p, ok, r)
    \/ StoreAIAndReturn(p)

\* The steps of caller p.
CallerNext(p) ==
    \/ \E u \in UserInputs : turns < MaxTurns /\ ProcessMessage(p, u)
    \/ CallerSteps(p)

\* One caller, whose turns follow one another.
NextAgent == CallerNext(1)

SpecAgent == InitAgent /\ [][NextAgent]_vars

\* A ProceduralMemory whose callers also add rules with separators and
\* ordinals in the instruction.
NextReload ==
    \/ \E w \in BOOLEAN : PMInitialize(w)
    \/ \E r \in StoredRules, w \in BOOLEAN : PMStore(r, w)
    \/ \E t \in LLMTexts, w \in BOOLEAN : PMUpdate(t, w)
    \/ \E w \in BOOLEAN : PMClear(w)
    \/ \E i \in ReloadInstructions, r \in Rationales, w \in BOOLEAN : AddRule(i, r, w)
    \/ \E x \in RemoveIndexes, w \in BOOLEAN : RemoveRule(x, w)

SpecReload == Init /\ [][NextReload]_vars

\* One caller that calls process_message, initialize and end_conversation one
\* after the other.
NextLife ==
    \/ \E u \in UserInputs : turns < MaxLifeTurns /\ ProcessMessage(1, u)
    \/ CallerSteps(1)
    \/ calls < MaxCalls /\ Initialize(1)
    \/ calls < MaxCalls /\ EndConversation(1)
    \/ \E l \in BOOLEAN, r \in EndReflections, i \in BOOLEAN, t \in EndUpdateTexts,
          w \in BOOLEAN : EndConversationStep(1, l, r, i, t, w)

SpecLife == InitAgent /\ [][NextLife]_vars

\* A new agent with an empty episodic collection and no rules file, and a
\* ConversationManager constructed on it.
InitSession == InitAgent /\ collection = <<>> /\ ~file_exists

\* The awaits of initialize and process_message when the semantic store
\* holds nothing relevant.
SessionSteps(p) ==
    \/ \E ok \in BOOLEAN : InitProvider(p, ok)
    \/ \E w \in BOOLEAN : InitProcedural(p, w)
    \/ \E q \in BOOLEAN : RetrieveEpisodic(p, 0, q, TRUE)
    \/ \E ok \in BOOLEAN : RetrieveSemantic(p, ok, <<>>)
    \/ RetrieveProcedural(p)
    \/ StoreSystemPrompt(p)
    \/ StoreUser(p)
    \/ \E ok \in BOOLEAN, r \in Replies : InvokeLLM(p, ok, r)
    \/ StoreAIAndReturn(p)

\* One caller that drives the agent through a ConversationManager while the
\* clock runs.
NextSession ==
    \/ calls < MaxSessionCalls /\ MgrStart(1)
    \/ turns < MaxSessionTurns /\ MgrProcess(1, UserInputOf(1))
    \/ calls < MaxSessionCalls /\ MgrEnd(1)
    \/ calls < MaxSessionCalls /\ MgrReset(1)
    \/ SessionSteps(1)
    \/ \E l \in BOOLEAN, r \in EndReflections, i \in BOOLEAN, t \in EndUpdateTexts,
          w \in BOOLEAN : EndConversationStep(1, l, r, i, t, w)
    \/ pc[1] = "idle" /\ Tick

SpecSession == InitSession /\ [][NextSession]_vars

\* A SemanticMemory whose store returns any list of FetchedLists for the
\* source asked for.
InitSemantic ==
    /\ WMIdle /\ PMIdle /\ AgentInit /\ EMInit
    /\ session = NewSession(0)
    /\ mgr = [p \in Procs |-> NoCall]
    /\ added = StateCalled("__init__", <<>>)
    /\ st_ops = 0
    /\ closes = 0
    /\ fetched \in FetchedLists
    /\ result_objects = <<>>
    /\ chunks = Fetched(FALSE, FALSE, <<>>)

NextSemantic == \E ok \in BOOLEAN : GetBySource(ok)

SpecSemantic == InitSemantic /\ [][NextSemantic]_vars

\* An AgentState under add_episodic, add_what_worked, add_what_to_avoid and reset.
InitState == WMIdle /\ PMIdle /\ AgentInit /\ EMInit /\ SVIdle

NextState ==
    \/ \E sm \in Summaries : StateAddEpisodic(sm)
    \/ \E i \in Items : StateAddWhatWorked(i)
    \/ \E i \in Items : StateAddWhatToAvoid(i)
    \/ StateReset

SpecState == InitState /\ [][NextState]_vars

\* One caller that calls process_message, initialize and shutdown one after
\* the other.
NextShutdown ==
    \/ \E u \in UserInputs : turns < MaxLifeTurns /\ ProcessMessage(1, u)
    \/ CallerSteps(1)
    \/ calls < MaxShutdownCalls /\ Initialize(1)
    \/ calls < MaxShutdownCalls /\ Shutdown(1)

SpecShutdown == InitAgent /\ [][NextShutdown]_vars

\* The steps of caller p when two callers share the agent.
SharedNext(p) ==
    \/ turns < MaxSharedTurns /\ ProcessMessage(p, UserInputOf(p))
    \/ CallerSteps(p)

\* Two callers whose process_message calls interleave at the awaits.
NextShared == \E p \in Procs : SharedNext(p)

SpecShared == InitAgent /\ [][NextShared]_vars

\* The steps of caller p when two callers start the agent, each by initialize
\* or by process_message.
StartupNext(p) ==
    \/ turns < MaxStartupTurns /\ ProcessMessage(p, UserInputOf(p))
    \/ calls < MaxStartupCalls /\ Initialize(p)
    \/ CallerSteps(p)

\* Two callers whose initialize and process_message calls interleave at the
\* awaits.
NextStartup == \E p \in Procs : StartupNext(p)

SpecStartup == InitAgent /\ [][NextStartup]_vars

\* A ProceduralMemory whose update calls overlap at the completion call.
NextOverlap ==
    \/ \E w \in BOOLEAN : PMInitialize(w)
    \/ \E u \in Updaters : UpdateBegin(u)
    \/ \E u \in Updaters, l \in BOOLEAN, t \in LLMTexts, w \in BOOLEAN :
            UpdateFinish(u, l, t, w)

SpecOverlap == Init /\ [][NextOverlap]_vars

\* An EpisodicMemory under store and retrieve, called one after the other.
InitEpisodic == EMInit /\ WMIdle /\ PMIdle /\ AgentInit /\ SVIdle

NextEpisodic ==
    \/ \E m \in Transcripts, r \in Reflections, i \in BOOLEAN : EMStore(m, TRUE, r, i)
    \/ \E m \in Transcripts : EMStore(m, FALSE, NoReflection, TRUE)
    \/ \E h \in 0..Len(collection), q \in BOOLEAN, u \in BOOLEAN : EMRetrieve(h, q, u)
    \/ Tick

SpecEpisodic == InitEpisodic /\ [][NextEpisodic]_vars

\* An EpisodicMemory whose collection holds two entries, retrieved from with
\* limits 1..MaxLimit while the clock runs.
InitRanked ==
    /\ WMIdle /\ PMIdle /\ AgentInit /\ SVIdle
    /\ collection = <<SeedObject, OtherObject>>
    /\ now = 0
    /\ em_last = EMCalled("__init__", FALSE, <<TRUE, TRUE>>, NoOutcome, NoReflection, 0, 0, <<>>)
    /\ em_ops = 0

NextRanked ==
    \/ \E l \in 1..MaxLimit, q \in BOOLEAN, u \in BOOLEAN :
            \E objs \in HybridResults(l) : EMRetrieveLimit(l, objs, q, u)
    \/ Tick

SpecRanked == InitRanked /\ [][NextRanked]_vars

(***************************************************************************)
(* Properties.                                                             *)
(***************************************************************************)
Min(a, b) == IF a <= b THEN a ELSE b

\* The step just taken was a call of a ProceduralMemory method, recorded as op.
PMCalled(op) == pm_ops' = pm_ops + 1 /\ pm_last'.op = op

\* The step just taken was a call of update, whatever its outcome.
PMCalledUpdate == PMCalled("update") \/ PMCalled("update_llm_failed")

\* Every rule at list position i (1-based) has index i.
Contiguous(rs) == \A i \in 1..Len(rs) : rs[i].index = i

\* C1: the maintained counters total_messages, system_prompts, user_messages
\* and ai_messages equal the numbers of messages, system messages, user
\* messages and assistant messages present in the log, after any sequence of
\* store, clear and remove_last.
C1_CountersMatchLog ==
    /\ metadata.total_messages = Len(messages)
    /\ metadata.system_prompts = CountType(messages, "system")
    /\ metadata.user_messages = CountType(messages, "human")
    /\ metadata.ai_messages = CountType(messages, "ai")

\* C2: with capacity C >= 1, after N store calls from an empty log the log
\* holds min(N, C) messages and they are the last min(N, C) messages stored,
\* in the order stored, whatever their roles.
C2_BoundedLogKeepsNewest ==
    max_size >= 1 =>
        /\ Len(messages) = Min(Len(appended), max_size)
        /\ messages = LastN(appended, Min(Len(appended), max_size))

\* C2's case: more messages were stored than the capacity holds, and the
\* oldest one, a system message, is gone.
C2_Witness ==
    /\ max_size >= 1
    /\ Len(appended) > max_size
    /\ appended[1].type = "system"
    /\ Len(messages) = max_size

\* C3: an update whose completion output parses to zero rules leaves the rule
\* list as it was, does not write the backing file and raises nothing.
C3_UpdateParsingNothingIsNoOp ==
    [][(PMCalled("update") /\ ParseRules(Strip(pm_last'.text)) = <<>>)
        => /\ rules' = rules
           /\ file_exists' = file_exists
           /\ file_text' = file_text
           /\ ~pm_last'.wrote
           /\ ~pm_last'.raised]_vars

\* C3's case: update returned after a completion output that parses to no
\* rule, with rules in the list.
C3_Witness ==
    /\ pm_last.op = "update"
    /\ ParseRules(Strip(pm_last.text)) = <<>>
    /\ Len(rules) >= 1

\* C4: whenever update raises (the completion call or the file write failed)
\* the rule list is the one before the call.
C4_FailedUpdateKeepsRules ==
    [][(PMCalledUpdate /\ pm_last'.raised) => rules' = rules]_vars

\* C5: after an update that returned normally the list has at most 10 rules;
\* when the completion output parses to more than 10 rules, the list is the
\* first 10 of them, in order, with indices 1..10.
C5_UpdateCapsRules ==
    [][(PMCalled("update") /\ ~pm_last'.raised)
        => /\ Len(rules') <= 10
           /\ LET parsed == ParseRules(Strip(pm_last'.text))
              IN  Len(parsed) > 10 =>
                    /\ rules' = SubSeq(parsed, 1, 10)
                    /\ \A i \in 1..10 : rules'[i].index = i]_vars

\* C6: after any remove_rule or update that returned normally every rule at
\* position i (1-based) has index i, and remove_rule with an out-of-range
\* index changes nothing.
C6_RemoveAndUpdateKeepContiguous ==
    [][((PMCalled("remove_rule") \/ PMCalled("update")) /\ ~pm_last'.raised)
        => /\ Contiguous(rules')
           /\ (pm_last'.op = "remove_rule"
                    /\ ~(1 <= pm_last'.index /\ pm_last'.index <= Len(rules)))
                => UNCHANGED <<rules, file_exists, file_text>>]_vars

\* C7: once initialize has returned, rule indices are contiguous from 1 in
\* every state reached by store, add_rule, remove_rule, update and clear.
C7_IndicesContiguous == pm_ready => Contiguous(rules)

\* C8: once initialize has returned, from a missing or an existing file, the
\* list holds at most 10 rules in every state reached by store, add_rule,
\* remove_rule, update and clear.
C8_AtMostTenRules == pm_ready => Len(rules) <= 10

\* The stores caller p's current turn has made, in order.
TurnStores(p) == SelectSeq(trace[p], LAMBDA e : e.call = "working_memory.store")

\* The number of calls of `call` caller p's current turn has made.
TurnCalls(p, call) == Len(SelectSeq(trace[p], LAMBDA e : e.call = call))

\* C9: a process_message that returned has appended to working memory, in
\* this order and nothing else: one system message, then the tagged semantic
\* context as a user-role message if and only if the semantic retrieval was
\* non-empty, then the literal user message, then, after the completion call,
\* the reply as an assistant message; it returned that reply.  When every
\* turn so far returned and nothing was evicted, the log holds one system
\* message per turn.
C9_TurnAppendsInOrder ==
    /\ \A p \in Procs :
        outcome[p].kind = "returned" =>
            LET f == frame[p]
                st == TurnStores(p)
                n == Len(trace[p])
                k == IF f.semantic # <<>> THEN 1 ELSE 0
            IN  /\ Len(st) = 3 + k
                /\ st[1].type = "system"
                /\ k = 1 => st[2] = StoreEvent(HumanMessage(SemanticTag \o f.semantic))
                /\ st[2 + k] = StoreEvent(HumanMessage(f.user_input))
                /\ st[3 + k] = StoreEvent(AIMessage(f.response))
                /\ trace[p][n] = st[3 + k]
                /\ trace[p][n - 1].call = "llm.ainvoke"
                /\ trace[p][n - 2] = st[2 + k]
                /\ TurnCalls(p, "llm.ainvoke") = 1
                /\ outcome[p].value = f.response
    /\ ((\A p \in Procs : pc[p] = "idle") /\ raised_turns = 0 /\ Len(appended) <= max_size)
            => CountType(messages, "system") = turns

\* C9's case: two turns or more have returned, none raised, the last one with
\* a semantic context.
C9_Witness ==
    /\ outcome[1].kind = "returned"
    /\ frame[1].semantic # <<>>
    /\ turns >= 2
    /\ raised_turns = 0
    /\ CountType(messages, "system") = turns

Retrievals == {"episodic.retrieve", "semantic.retrieve", "procedural.retrieve"}

CompletionFailed(p) == pc[p] = "llm.ainvoke" /\ pc'[p] = "idle"

\* C11: when the completion call of a process_message fails, the call raises
\* to its caller after that one completion call; the log and its counters are
\* as they were before the completion call, so the system message, the
\* semantic context if any and the user message of the turn are its last
\* entries and no assistant message was appended; the transient state is
\* unchanged; the caller is idle again on an agent that stays initialized, so
\* that its next process_message is accepted.
C11_CompletionFailureKeepsTurn ==
    [][\A p \in Procs :
        CompletionFailed(p) =>
            LET t == trace'[p]
                st == SelectSeq(t, LAMBDA e : e.call = "working_memory.store")
                f == frame[p]
                k == IF f.semantic # <<>> THEN 1 ELSE 0
            IN  /\ outcome'[p].kind = "raised"
                /\ Len(SelectSeq(t, LAMBDA e : e.call = "llm.ainvoke")) = 1
                /\ t[Len(t)].call = "llm.ainvoke"
                /\ messages' = messages
                /\ metadata' = metadata
                /\ appended' = appended
                /\ Len(st) = 2 + k
                /\ st[1].type = "system"
                /\ k = 1 => st[2] = StoreEvent(HumanMessage(SemanticTag \o f.semantic))
                /\ st[2 + k] = StoreEvent(HumanMessage(f.user_input))
                /\ \A e \in {st[i] : i \in 1..Len(st)} :
                        \E i \in 1..Len(appended) : StoreEvent(appended[i]) = e
                /\ \A i \in 1..Len(st) : st[i].type # "ai"
                /\ state' = state
                /\ initialized' = initialized /\ initialized
                /\ pc'[p] = "idle"]_vars

\* C11's case: a turn whose completion call failed left its user message in
\* the log without a reply, and a later turn of the same agent returned.
C11_Witness ==
    /\ outcome[1].kind = "returned"
    /\ raised_turns >= 1
    /\ \E i \in 1..(Len(messages) - 1) :
        /\ messages[i].type = "human"
        /\ messages[i].content \in UserInputs
        /\ messages[i + 1].type = "system"

\* The step just taken was a direct call of EpisodicMemory method op.
EMCalledOp(op) == em_ops' = em_ops + 1 /\ em_last'.op = op

\* The step just taken was a retrieval whose top hit was object h and whose
\* query and update both worked.
Retrieved(h) == EMCalledOp("retrieve") /\ ~em_last'.raised /\ em_last'.hit = h

\* C16: a retrieval whose top hit is an entry raises that entry's stored
\* access counter by one and sets its stored last-accessed time to the
\* current time, which is not earlier than the one stored before; when the
\* retrieval before it had the same top hit, the counter is two above the
\* value that earlier retrieval read.
C16_TwoRetrievalsCountTwo ==
    [][\A h \in 1..Len(collection) :
        Retrieved(h) =>
            /\ AccessCount(collection'[h]) = AccessCount(collection[h]) + 1
            /\ collection'[h].last_accessed = <<now>>
            /\ collection[h].last_accessed # <<>>
                    => collection'[h].last_accessed[1] >= collection[h].last_accessed[1]
            /\ (em_last.op = "retrieve" /\ ~em_last.raised /\ em_last.hit = h)
                    => AccessCount(collection'[h]) = em_last.read + 2
            /\ \A g \in 1..Len(collection) : g # h => collection'[g] = collection[g]]_vars

\* C16's case: the same entry was the top hit of two retrievals, the second
\* one at a later time than the first.
C16_Witness ==
    /\ em_last.op = "retrieve"
    /\ ~em_last.raised
    /\ em_last.hit = 1
    /\ em_last.read = 1
    /\ collection[1].access_count = <<2>>
    /\ collection[1].last_accessed = <<1>>

ReflectedFields == {"context_tags", "conversation_summary", "what_worked", "what_to_avoid"}

\* The empty value of a reflected field: the empty list for the tags, the
\* empty string for the three texts.
EmptyOf(f) == IF f = "context_tags" THEN ListVal(<<>>) ELSE TextVal(<<>>)

\* Value v is of the type field f holds.
WellFormed(f, v) == v.kind = (IF f = "context_tags" THEN "list" ELSE "str")

\* The step just taken was a store whose reflection chain returned an output
\* and whose insert, if attempted, was going to work.
Reflected == EMCalledOp("store") /\ em_last'.env = <<TRUE, TRUE>>

\* C17: when the reflection output omits any subset of the four fields and
\* the others are well-formed, store returns normally and has inserted one
\* object in which every omitted field holds its empty value and every
\* supplied field the value supplied; no field of it is null or absent.
C17_OmittedFieldsDefault ==
    [][LET r == em_last'.reflection IN
        (Reflected /\ \A f \in ReflectedFields :
                            r[f].kind = "absent" \/ WellFormed(f, r[f]))
            => /\ ~em_last'.raised
               /\ Len(collection') = Len(collection) + 1
               /\ SubSeq(collection', 1, Len(collection)) = collection
               /\ \A f \in ReflectedFields :
                    LET stored == collection'[Len(collection')][f]
                    IN  /\ stored = (IF r[f].kind = "absent" THEN EmptyOf(f) ELSE r[f])
                        /\ stored.kind \notin {"null", "absent"}]_vars

\* C17's case: an entry was stored from a reflection output without
\* what_worked and without tags, its summary supplied.
C17_Witness ==
    /\ em_last.op = "store"
    /\ ~em_last.raised
    /\ em_last.reflection.what_worked = Absent
    /\ em_last.reflection.context_tags = Absent
    /\ collection # <<>>
    /\ collection[Len(collection)].what_worked = TextVal(<<>>)
    /\ collection[Len(collection)].context_tags = ListVal(<<>>)
    /\ collection[Len(collection)].conversation_summary = TextVal(<<"s">>)

\* C18: when the reflection output holds a field that is null or of the wrong
\* type, store returns normally and has inserted one object in which that
\* field holds its empty value and every well-formed field the value supplied.
C18_MalformedFieldFallsBack ==
    [][LET r == em_last'.reflection IN
        (Reflected /\ \E f \in ReflectedFields :
                            r[f].kind # "absent" /\ ~WellFormed(f, r[f]))
            => /\ ~em_last'.raised
               /\ Len(collection') = Len(collection) + 1
               /\ \A f \in ReflectedFields :
                    collection'[Len(collection')][f]
                        = (IF WellFormed(f, r[f]) THEN r[f] ELSE EmptyOf(f))]_vars

\* C19: store raises EpisodicMemoryError when the reflection chain raises and
\* when insert fails, and then the collection is as before; when the
\* reflection chain raises, insert is not attempted.
C19_StoreFailuresRaise ==
    [][EMCalledOp("store") =>
        /\ ~em_last'.env[1]
                => em_last'.raised /\ ~em_last'.out.attempted /\ collection' = collection
        /\ (em_last'.out.attempted /\ ~em_last'.env[2])
                => em_last'.raised /\ collection' = collection
        /\ em_last'.raised => collection' = collection
        /\ ~em_last'.raised => em_last'.out.attempted /\ em_last'.out.reflected]_vars

\* C19's case: a store whose reflection chain raised, on a collection that
\* holds an entry.
C19_Witness ==
    /\ em_last.op = "store"
    /\ em_last.raised
    /\ ~em_last.env[1]
    /\ ~em_last.out.attempted
    /\ Len(collection) >= 1

\* C20: an initialize that returns normally, when the backing file is absent,
\* makes the rule list the 10 built-in rules with indices 1..10 and writes
\* them to the file in the same call; when the file is present, it makes the
\* rule list the rules parsed from the file and does not write the file.
C20_InitializeSeedsOrLoads ==
    [][(PMCalled("initialize") /\ ~pm_last'.raised) =>
        IF ~file_exists
        THEN /\ rules' = GetDefaultRules
             /\ Len(rules') = 10
             /\ Contiguous(rules')
             /\ pm_last'.wrote
             /\ file_exists'
             /\ file_text' = SaveText(rules')
        ELSE /\ rules' = ParseRules(file_text)
             /\ ~pm_last'.wrote
             /\ UNCHANGED <<file_exists, file_text>>]_vars

\* C20's case: initialize found no file, seeded the built-in rules and wrote
\* the file.
C20_Witness ==
    /\ pm_last.op = "initialize"
    /\ ~pm_last.raised
    /\ pm_last.wrote
    /\ Len(rules) = 10
    /\ file_exists
    /\ ParseRules(file_text) = rules

\* The step just taken was updater u's update returning from a write, after
\* another updater, whose prompt was built from the same rule list, wrote
\* while u was suspended.
WroteLast(u) ==
    /\ updates[u].pc = "awaiting"
    /\ updates'[u].pc = "idle"
    /\ updates[u].overwritten # <<>>
    /\ pm_last'.wrote

\* C14: when two update calls overlap, both prompts built from the same rule
\* list, the call that writes last returns normally and leaves, in memory and
\* in the file, exactly the first 10 rules parsed from its own completion
\* output: nothing of what the other call wrote is kept and no error is raised.
C14_LastWriterWins ==
    [][\A u \in Updaters :
        WroteLast(u) =>
            /\ ~pm_last'.raised
            /\ rules' = Take(ParseRules(Strip(pm_last'.text)), 10)
            /\ file_exists'
            /\ file_text' = SaveText(rules')
            /\ ParseRules(file_text') = rules']_vars

\* C14's case: both updaters have returned from overlapping calls, and the
\* rules the first one wrote are not the ones in memory and in the file.
C14_Witness ==
    \E u \in Updaters :
        /\ \A v \in Updaters : updates[v].pc = "idle"
        /\ updates[u].overwritten # <<>>
        /\ updates[u].overwritten[1] # rules
        /\ pm_last.op = "update"
        /\ pm_last.wrote
        /\ file_text = SaveText(rules)

\* Caller p's call moved on from the await `label` in the step just taken.
Left(p, label) == pc[p] = label /\ pc'[p] # label

\* C12: end_conversation hands EpisodicMemory.store the transcript of working
\* memory without its system messages, so that, the reflection chain and
\* insert working, store inserts one entry holding that transcript and the
\* call goes on to ProceduralMemory.update, called with the state's
\* what_worked and what_to_avoid, then to clear and reset; when it has
\* returned it has called store once and update once, and the log and the
\* state's episodic_history, what_worked and what_to_avoid are empty.
C12_EndConversationOrder ==
    [][\A p \in Procs :
        frame[p].call = "end_conversation" =>
            LET t == trace'[p]
                NonSystem == SelectSeq(messages, LAMBDA m : m.type # "system")
            IN  /\ (Left(p, "episodic.store") /\ em_last'.env = <<TRUE, TRUE>>) =>
                    /\ t[Len(t)] = Event("episodic.store", "list", NonSystem)
                    /\ ~em_last'.raised
                    /\ Len(collection') = Len(collection) + 1
                    /\ collection'[Len(collection')].conversation
                            = FormatConversation(messages)
                    /\ pc'[p] = "procedural.update"
                /\ (Left(p, "procedural.update") /\ ~pm_last'.raised) =>
                    /\ t[Len(t)] = Event("procedural.update", "",
                                         <<state.what_worked, state.what_to_avoid>>)
                    /\ pc'[p] = "working_memory.clear"
                /\ (outcome[p].kind = "running" /\ outcome'[p].kind = "returned") =>
                    /\ [i \in 1..Len(t) |-> t[i].call]
                            = <<"episodic.store", "procedural.update", "working_memory.clear">>
                    /\ messages' = <<>>
                    /\ metadata' = ZeroMetadata
                    /\ state' = EmptyState]_vars

\* The log holds a user message of caller p and, after it, one of another
\* caller.
OtherTurnAfterUser(p) ==
    \E i, j \in 1..Len(messages) :
        /\ i < j
        /\ messages[i] = HumanMessage(UserInputOf(p))
        /\ \E q \in Procs \ {p} : messages[j] = HumanMessage(UserInputOf(q))

\* The log of two interleaved calls: the user message of one call, then the
\* user message of the other, then the first call's reply.
InterleavedLog ==
    \E p \in Procs, i, j, k \in 1..Len(messages) :
        /\ i < j /\ j < k
        /\ messages[i] = HumanMessage(UserInputOf(p))
        /\ \E q \in Procs \ {p} :
            /\ messages[j] = HumanMessage(UserInputOf(q))
            /\ pc[q] \in {"llm.ainvoke", "store_ai"}
        /\ messages[k].type = "ai"
        /\ outcome[p].kind = "returned"

\* C13: when the log holds another call's user message after this call's
\* user message, the completion capability is invoked for this call on the
\* log as it stands, the other call's turns included.
C13_CompletionSeesSharedLog ==
    [][\A p \in Procs :
        (Left(p, "llm.ainvoke") /\ OtherTurnAfterUser(p)) =>
            LET e == trace'[p][Len(trace'[p])]
            IN  /\ e.call = "llm.ainvoke"
                /\ e.type = "list"
                /\ e.arg = messages]_vars

\* The step just taken was a direct call of initialize by caller p.
InitializeCalled(p) ==
    pc[p] = "idle" /\ calls' = calls + 1 /\ frame'[p].call = "initialize"

\* C15: a direct call of initialize on an initialized agent returns at once:
\* it calls neither provider.initialize nor procedural_memory.initialize,
\* raises nothing and changes nothing of the agent, its memories and the
\* collection.  The initialized flag turns true only in the step in which
\* procedural_memory.initialize returns normally, in a call that has called
\* provider.initialize and then procedural_memory.initialize, once each.
C15_InitializeIdempotent ==
    [][/\ \A p \in Procs :
            (InitializeCalled(p) /\ initialized) =>
                /\ pc'[p] = "idle"
                /\ outcome'[p] = Outcome("returned", <<>>)
                /\ trace'[p] = <<>>
                /\ UNCHANGED <<initialized, state, provider_inits, raised_turns,
                               wmVars, pmVars, emVars, svVars>>
       /\ (~initialized /\ initialized') =>
            \E p \in Procs :
                /\ Left(p, "procedural.initialize")
                /\ outcome'[p].kind # "raised"
                /\ [i \in 1..Len(trace'[p]) |-> trace'[p][i].call]
                        = <<"provider.initialize", "procedural.initialize">>
                /\ ~pm_last'.raised
                /\ pm_ready'
                /\ provider_inits' >= 1]_vars

\* C15's case: initialize was called on an agent that a process_message had
\* initialized, and returned without calling anything.
C15_Witness ==
    /\ initialized
    /\ frame[1].call = "initialize"
    /\ outcome[1] = Outcome("returned", <<>>)
    /\ trace[1] = <<>>
    /\ provider_inits = 1
    /\ turns >= 1

\* The direct WorkingMemory call `op` is taken in this step.
WMCalledOp(op) == wm_ops' = wm_ops + 1 /\ wm_last'.op = op

\* The role of the messages each recognised type name selects.
RoleOf(name) ==
    CASE name = "system" -> "system"
      [] name = "user"   -> "human"
      [] name = "ai"     -> "ai"

\* C21: retrieve filters first and then takes the last N: with a type name
\* the filter recognises and a limit N >= 1 it returns the last N messages of
\* that role in log order, with the type alone all messages of that role,
\* with a limit N >= 1 alone the last N messages of the log; the log and its
\* counters are the same after the call.
C21_RetrieveFiltersThenLimits ==
    [][WMCalledOp("retrieve") =>
        LET r == wm_last'.result
            t == wm_last'.type
            l == wm_last'.limit
        IN  /\ messages' = messages
            /\ metadata' = metadata
            /\ \A name \in {"system", "user", "ai"} :
                    t = <<name>> =>
                        LET sub == OfType(messages, RoleOf(name))
                        IN  /\ (l # <<>> /\ l[1] >= 1) =>
                                /\ Len(r) = Min(l[1], Len(sub))
                                /\ \A i \in 1..Len(r) :
                                        r[i] = sub[Len(sub) - Len(r) + i]
                            /\ l = <<>> => r = sub
            /\ (t = <<>> /\ l # <<>> /\ l[1] >= 1) =>
                    /\ Len(r) = Min(l[1], Len(messages))
                    /\ \A i \in 1..Len(r) :
                            r[i] = messages[Len(messages) - Len(r) + i]]_vars

\* retrieve(type='user', limit=1) on a log holding two user messages and
\* ending with another role returned the later user message.
C21_Witness ==
    /\ wm_last.op = "retrieve"
    /\ wm_last.type = <<"user">>
    /\ wm_last.limit = <<1>>
    /\ Len(OfType(messages, "human")) = 2
    /\ messages[Len(messages)].type # "human"
    /\ wm_last.result = <<OfType(messages, "human")[2]>>

\* C22: remove_last(n) with n <= 0 or n beyond the length of the log leaves
\* the log and the counters as they were; with 1 <= n <= length it removes
\* the last n messages, keeps the first length - n in order, and lowers each
\* counter by the number of removed messages of its kind.
C22_RemoveLastTruncates ==
    [][WMCalledOp("remove_last") =>
        LET n == wm_last'.n
            len == Len(messages)
        IN  IF 1 <= n /\ n <= len
            THEN /\ Len(messages') = len - n
                 /\ \A i \in 1..(len - n) : messages'[i] = messages[i]
                 /\ LET removed == [i \in 1..n |-> messages[len - n + i]]
                    IN  /\ metadata'.total_messages = metadata.total_messages - n
                        /\ metadata'.system_prompts
                                = metadata.system_prompts - CountType(removed, "system")
                        /\ metadata'.user_messages
                                = metadata.user_messages - CountType(removed, "human")
                        /\ metadata'.ai_messages
                                = metadata.ai_messages - CountType(removed, "ai")
            ELSE messages' = messages /\ metadata' = metadata]_vars

\* remove_last(2) has just taken a log of three messages down to one.
C22_Witness ==
    /\ wm_last.op = "remove_last"
    /\ wm_last.n = 2
    /\ Len(messages) = 1
    /\ Len(appended) = 3
    /\ metadata.total_messages = 1

\* Caller p enters the ConversationManager method and awaits the agent.
MgrBegins(p, method) ==
    /\ mgr[p].outcome.kind # "running"
    /\ mgr'[p].method = method
    /\ mgr'[p].outcome.kind = "running"

\* The ConversationManager method caller p awaited in returns or raises.
MgrFinishes(p, method) ==
    /\ mgr[p].method = method
    /\ mgr[p].outcome.kind = "running"
    /\ mgr'[p].outcome.kind # "running"

C24_EndAveragesOverMessages ==
    [][/\ (mgr[1].method = "end" /\ Left(1, "episodic.store")
            /\ em_last'.env = <<TRUE, TRUE>>) => outcome'[1].kind # "raised"
       /\ MgrFinishes(1, "end") =>
            /\ mgr'[1].outcome.kind = "returned" => mgr'[1].summary # <<>>
            /\ mgr'[1].summary # <<>> =>
                LET sm == mgr'[1].summary[1]
                IN  /\ sm.duration_seconds = now - session.start_time[1]
                    /\ sm.total_messages = session.messages
                    /\ sm.avg_response_time.num = sm.duration_seconds
                    /\ sm.avg_response_time.den = Max(sm.total_messages, 1)
                    /\ sm.avg_response_time.den >= 1]_vars

\* C25: reset, the reflection chain and the insert working, runs
\* end_conversation to its end and then holds a new conversation_id, a
\* counter of 0 and unset start and end times, the agent staying initialized
\* and its provider open; when end_conversation raises, the conversation_id
\* and the stats are as before the call.
C25_ResetRenewsSession ==
    [][/\ (mgr[1].method = "reset" /\ Left(1, "episodic.store")
            /\ em_last'.env = <<TRUE, TRUE>>) => outcome'[1].kind # "raised"
       /\ MgrFinishes(1, "reset") =>
            /\ initialized' = initialized
            /\ closes' = closes
            /\ IF mgr'[1].outcome.kind = "returned"
               THEN session' = NewSession(now')
               ELSE session' = session]_vars

\* Caller p calls shutdown in this step.
ShutdownCalled(p) == calls' = calls + 1 /\ frame'[p].call = "shutdown"

\* C29: every shutdown call calls the provider's close once, whether or not
\* the agent is initialized and however many shutdowns came before, and
\* nothing else calls it; shutdown leaves the initialized flag, the working
\* memory and the transient state as they were.
C29_ShutdownClosesEveryTime ==
    [][/\ ShutdownCalled(1) =>
            /\ closes' = closes + 1
            /\ trace'[1] = <<Event("provider.close", "", <<>>)>>
            /\ initialized' = initialized
            /\ messages' = messages
            /\ metadata' = metadata
            /\ state' = state
       /\ closes' # closes => ShutdownCalled(1)]_vars

\* Two shutdowns after a turn: close was called twice, the agent is still
\* initialized and the turn is still in working memory.
C29_Witness ==
    /\ closes = 2
    /\ frame[1].call = "shutdown"
    /\ initialized
    /\ Len(messages) >= 3

\* Caller p's process_message returns in this step.
TurnReturns(p) ==
    /\ frame[p].call = "process_message"
    /\ outcome[p].kind = "running"
    /\ outcome'[p].kind = "returned"

\* C26: when process_message returns after retrieving an episodic entry e,
\* the state's episodic_history ends with e's summary and holds what it held
\* before (within the last ten), what_worked holds e's what_worked and
\* what_to_avoid e's what_to_avoid besides what they held; when no entry was
\* retrieved the three collections are as before the turn.  No other step of
\* a turn touches them.
C26_TurnFoldsEntryIntoState ==
    [][/\ TurnReturns(1) =>
            LET e == frame[1].episodic
                h == state'.episodic_history
            IN  IF e = NoEntry THEN state' = state
                ELSE /\ h # <<>>
                     /\ h[Len(h)] = e[1].conversation_summary
                     /\ state'.what_worked = state.what_worked \cup {e[1].what_worked}
                     /\ state'.what_to_avoid
                            = state.what_to_avoid \cup {e[1].what_to_avoid}
       /\ state' # state => TurnReturns(1)]_vars

\* A turn that retrieved an entry has returned and a later turn that
\* retrieved none has returned too: the state still holds the entry's fields.
C26_Witness ==
    /\ outcome[1].kind = "returned"
    /\ frame[1].call = "process_message"
    /\ frame[1].episodic = NoEntry
    /\ turns = 2
    /\ Len(state.episodic_history) = 1
    /\ state.what_worked # {}
    /\ state.what_to_avoid # {}

\* One of the retrievals of caller p's process_message raises in this step.
RetrievalFails(p) ==
    /\ frame[p].call = "process_message"
    /\ pc[p] \in Retrievals
    /\ outcome[p].kind = "running"
    /\ outcome'[p].kind = "raised"

\* C30: when a retrieval of process_message fails, the call ends there with
\* that error and the completion capability is not invoked; the turn has
\* appended nothing to working memory, and no step of the call up to and
\* including the failing retrieval changes the log, its counters or the
\* transient state, which are thus as before the call.
C30_RetrievalFailureLeavesNoTrace ==
    [][/\ RetrievalFails(1) =>
            /\ pc'[1] = "idle"
            /\ outcome'[1].value = ErrorText(pc[1])
            /\ \A i \in 1..Len(trace'[1]) :
                    trace'[1][i].call \notin {"working_memory.store", "llm.ainvoke"}
       /\ (frame[1].call = "process_message"
            /\ pc[1] \in Retrievals \cup {"provider.initialize", "procedural.initialize"}) =>
            /\ messages' = messages
            /\ metadata' = metadata
            /\ state' = state]_vars

\* The semantic retrieval of the second turn failed: the caller holds its
\* error and the log ends with the reply of the first turn.
C30_Witness ==
    /\ outcome[1] = Outcome("raised", ErrorText("semantic.retrieve"))
    /\ turns = 2
    /\ messages # <<>>
    /\ messages[Len(messages)].type = "ai"
    /\ TurnCalls(1, "episodic.retrieve") = 1

\* C27: episodic_history never holds more than ten entries: it is the last
\* min(n, 10) of the n summaries added since the last reset, in the order
\* they were added; reset empties it and what_worked and what_to_avoid.
C27_HistoryKeepsLastTen ==
    [][/\ Len(state'.episodic_history) <= 10
       /\ LET n == Len(added'.summaries)
              k == Min(n, 10)
          IN  /\ Len(state'.episodic_history) = k
              /\ \A i \in 1..k : state'.episodic_history[i] = added'.summaries[n - k + i]
       /\ (st_ops' = st_ops + 1 /\ added'.last = "reset") =>
            /\ state'.episodic_history = <<>>
            /\ state'.what_worked = {}
            /\ state'.what_to_avoid = {}]_vars

\* Eleven summaries were added since the last reset, the first of them
\* unlike the second: the history holds ten and begins with the second.
C27_Witness ==
    /\ added.last = "add_episodic"
    /\ Len(added.summaries) = 11
    /\ added.summaries[1] # added.summaries[2]
    /\ Len(state.episodic_history) = 10
    /\ state.episodic_history[1] = added.summaries[2]
    /\ st_ops = MaxStateOps

\* C28: the list get_by_source returns is ordered ascending by chunk_index,
\* whatever the order of the store's answer, and holds one chunk for each
\* object the store returned and no other: as many chunks as objects, each
\* object's uuid once, with that object's chunk_index (0 if it has none).
C28_ChunksSortedByIndex ==
    (chunks.called /\ ~chunks.raised) =>
        LET cs == chunks.value
        IN  /\ \A i \in 1..(Len(cs) - 1) : cs[i].chunk_index <= cs[i + 1].chunk_index
            /\ Len(cs) = Len(fetched)
            /\ \A i \in 1..Len(fetched) :
                    \E j \in 1..Len(cs) : cs[j] = ChunkOf(fetched[i])
            /\ \A i, j \in 1..Len(cs) : cs[i].id = cs[j].id => i = j

\* The store answered with three objects, the one of highest chunk_index
\* first: the call returned three chunks with that one last.
C28_Witness ==
    /\ chunks.called /\ ~chunks.raised
    /\ Len(fetched) = 3
    /\ fetched[1].chunk_index = <<2>>
    /\ fetched[2].chunk_index = <<1>>
    /\ fetched[3].chunk_index = <<>>
    /\ chunks.value[3].id = fetched[1].uuid
    /\ chunks.value[1].id = fetched[3].uuid

\* The message type each role name of the specification stands for.
TypeOfRole(name) ==
    CASE name = "system"    -> "system"
      [] name = "user"      -> "human"
      [] name = "assistant" -> "ai"

\* C31: retrieve with the role name system, user or assistant returns only
\* messages of that role, and with a limit N >= 0 it returns at most N
\* messages, none for N = 0.
C31_RetrieveHonoursRoleAndLimit ==
    [][WMCalledOp("retrieve") =>
        LET r == wm_last'.result
            t == wm_last'.type
            l == wm_last'.limit
        IN  /\ \A name \in {"system", "user", "assistant"} :
                    t = <<name>> =>
                        \A i \in 1..Len(r) : r[i].type = TypeOfRole(name)
            /\ (l # <<>> /\ l[1] >= 0) => Len(r) <= l[1]]_vars

\* C36: after every mutating ProceduralMemory call that wrote the backing
\* file, parsing the file as initialize does gives the in-memory rule list:
\* as many rules, in the same order, each with the same index, instruction
\* and rationale.
C36_FileReloadsToRules ==
    [][(pm_ops' = pm_ops + 1 /\ pm_last'.wrote) => ParseRules(file_text') = rules']_vars

\* C32: when EpisodicMemory.store fails in end_conversation the call raises
\* there: store is the only call it made, ProceduralMemory.update is not
\* called, and the rules, their file, the log, its counters and the transient
\* state are as they were.
C32_FailedStoreStopsEndConversation ==
    [][(frame[1].call = "end_conversation" /\ pc[1] = "episodic.store"
        /\ pc'[1] # pc[1] /\ em_last'.raised) =>
            /\ pc'[1] = "idle"
            /\ outcome'[1] = Outcome("raised", ErrorText("episodic.store"))
            /\ Len(trace'[1]) = 1
            /\ trace'[1][1].call = "episodic.store"
            /\ pm_last' = pm_last
            /\ rules' = rules
            /\ file_text' = file_text
            /\ collection' = collection
            /\ messages' = messages
            /\ metadata' = metadata
            /\ state' = state]_vars

\* end_conversation has raised at the episodic store after a turn: the log,
\* the state and the rules still hold what the turn left.
C32_Witness ==
    /\ frame[1].call = "end_conversation"
    /\ outcome[1] = Outcome("raised", ErrorText("episodic.store"))
    /\ messages # <<>>
    /\ state.episodic_history # <<>>
    /\ rules # <<>>

\* C33: in end_conversation the episodic store, its reflection chain and
\* insert working, persists one entry before the rule update is called; when
\* that update then fails the call raises with the entry still in the
\* collection and the log and the transient state kept, so that the next
\* end_conversation stores the same transcript once more.
C33_RetryDuplicatesEntry ==
    [][frame[1].call = "end_conversation" =>
        /\ (Left(1, "episodic.store") /\ em_last'.env = <<TRUE, TRUE>>) =>
                /\ Len(collection') = Len(collection) + 1
                /\ pc'[1] = "procedural.update"
        /\ (Left(1, "procedural.update") /\ pm_last'.raised) =>
                /\ outcome'[1].kind = "raised"
                /\ collection' = collection
                /\ messages' = messages
                /\ state' = state]_vars

\* C34: while no call on the agent has raised, whatever the interleaving of
\* initialize and process_message calls on an agent that is not initialized,
\* provider.initialize has run at most once and procedural_memory.initialize
\* has run at most once.
C34_InitializesAtMostOnce ==
    raised_turns = 0 => (provider_inits <= 1 /\ pm_ops <= 1)

\* C35: ConversationManager.end on a session whose start_time is unset raises
\* before it delegates: the call ends in the step in which it is made, with
\* an error and no summary; MemoryAgent.end_conversation is not called (the
\* agent's call frame, trace, position and outcome are as before), and the
\* working memory, the rules, the rules file and the episodic collection
\* are unchanged.
C35_EndBeforeStartRaises ==
    [][(mgr'[1].method = "end" /\ calls' = calls + 1 /\ session.start_time = <<>>) =>
        /\ mgr'[1].outcome = Outcome("raised", <<"TypeError">>)
        /\ mgr'[1].summary = <<>>
        /\ UNCHANGED <<pc, frame, trace, outcome>>
        /\ UNCHANGED <<wmVars, pmVars, collection>>]_vars

\* C35's case: end was called and raised on a session that start never
\* opened, after a process call had put messages into the working memory.
C35_Witness ==
    /\ mgr[1].method = "end"
    /\ mgr[1].outcome.kind = "raised"
    /\ session.start_time = <<>>
    /\ session.end_time # <<>>
    /\ session.messages >= 1
    /\ messages # <<>>
    /\ frame[1].call # "end_conversation"

\* C37: a retrieve called with a limit of 1 or more, whose query works,
\* returns None and writes nothing when the result has no objects; when it
\* has objects and the update works, it returns exactly one entry, the one
\* of the first object of the result, built from the properties as read, so
\* that its access_count is one less than the value stored afterwards, and
\* it writes that object only, however many objects the result holds.
C37_RetrieveReturnsFirstHitOnly ==
    [][(EMCalledOp("retrieve") /\ em_last'.env[1]) =>
        IF result_objects' = <<>>
        THEN /\ ~em_last'.raised
             /\ em_last'.entry = <<>>
             /\ collection' = collection
        ELSE em_last'.env[2] =>
                LET h == result_objects'[1] IN
                /\ ~em_last'.raised
                /\ Len(em_last'.entry) = 1
                /\ em_last'.entry[1].id = h
                /\ em_last'.entry[1].conversation = collection[h].conversation
                /\ em_last'.entry[1].access_count = AccessCount(collection[h])
                /\ AccessCount(collection'[h]) = em_last'.entry[1].access_count + 1
                /\ Len(collection') = Len(collection)
                /\ \A g \in 1..Len(collection) : g # h => collection'[g] = collection[g]]_vars

\* C37's case: a retrieve with limit 2 got two objects, returned the first of
\* them with the count 1 it read and left it stored as 2, and the second
\* object, never a first hit, has no access properties.
C37_Witness ==
    /\ em_last.op = "retrieve"
    /\ ~em_last.raised
    /\ result_objects = <<2, 1>>
    /\ Len(em_last.entry) = 1
    /\ em_last.entry[1].id = 2
    /\ em_last.entry[1].access_count = 1
    /\ collection[2].access_count = <<2>>
    /\ collection[1].access_count = <<>>
    /\ collection[1].last_accessed = <<>>

\* C38: a WorkingMemory whose max_size is 0 or None never evicts: after N
\* store calls from the empty log, the log holds the N messages stored, in
\* the order they were stored, and its total_messages counter is N, however
\* large N is.
C38_FalsyCapacityNeverEvicts ==
    max_size = 0 =>
        /\ messages = appended
        /\ Len(messages) = wm_ops
        /\ metadata.total_messages = wm_ops

\* C38's case: a log of capacity 0 holds more messages than the largest
\* capacity of the model, the first one stored still at its head.
C38_Witness ==
    /\ max_size = 0
    /\ wm_ops > MaxSize
    /\ Len(messages) = wm_ops
    /\ messages[1] = appended[1]
    /\ messages[1].type = "system"

====
